---- MODULE Spec2Model ----
(***************************************************************************)
(* Verification model of the campustad tournament tracker.                 *)
(*                                                                         *)
(* The module holds several specifications over one set of variables:      *)
(*   SpecStandings  the standings engine (pure functions of fetched rows)  *)
(*   SpecAdmin      the two server-side admin dispatch endpoints           *)
(*   SpecPredict    the fan prediction page against profiles and matches   *)
(*   SpecMatch      match / goal deletion and its interleavings            *)
(* Every specification leaves the variables of the others unchanged.       *)
(***************************************************************************)
EXTENDS Integers, Sequences, FiniteSets, TLC

(***************************************************************************)
(* Bounds of the model                                                     *)
(***************************************************************************)
MaxMatches == 2
MaxScore == 1
MaxGoals == 2
MaxPred == 1
MaxInflight == 2
MaxKnockout == 3
MaxTime == 2

Teams == {"t1", "t2", "t3"}
Groups == {"g1", "g2"}
Null == "null"

\* order in which the backend returns rows keyed by team
TeamOrder == <<"t1", "t2", "t3">>

(***************************************************************************)
(* Standings engine: state                                                 *)
(***************************************************************************)
VARIABLES
    sTeams,          \* standings page: rows of teams as loaded, id -> name
    sTeamGroups,     \* standings page: rows of team_groups as loaded
    sMatches,        \* standings page: rows of matches as loaded (both stages)
    standings,       \* standingsByGroup of src/app/app/standings/page.tsx
    standingsM       \* standingsByGroup of src/unnamed/part_004

svars == <<sTeams, sTeamGroups, sMatches, standings, standingsM>>

(***************************************************************************)
(* Backend tables and pages: state                                         *)
(***************************************************************************)
Users == {"u1", "u2"}
MatchIds == {"m1", "m2"}
Roles == {"fan", "player", "admin"}

VARIABLES
    profiles,        \* table profiles: user id -> [role, status]
    matches,         \* table matches: id -> "none" | "scheduled" | "finished" | "deleted"
    preds,           \* table predictions: set of rows
    predictPage,     \* per user: React state of PredictPage
    inflight,        \* predictions inserts sent and not yet answered
    appLayout        \* per user: path and React state of AppLayout

dbvars == <<profiles, matches, preds>>
pvars == <<predictPage, inflight, appLayout>>

VARIABLES
    teams,           \* table teams: ids of the rows
    groups,          \* table groups: ids of the rows
    teamPlayers,     \* table team_players: ids of the rows
    goals,           \* table match_goals: set of rows [id, match_id]
    goalSeq,         \* number of match_goals rows inserted so far (next id - 1)
    fkMode,          \* match_goals.match_id -> matches.id: "restrict" | "cascade"
    pending,         \* deleteMatch calls between their two backend calls
    lastResp,        \* last response sent by a dispatch endpoint
    matchesPageErr   \* err state of the matches page that writes directly

tvars == <<teams, groups, teamPlayers, goals, goalSeq, fkMode>>
avars == <<tvars, pending, lastResp, matchesPageErr>>

VARIABLES
    kMatches,        \* standings page: knockout matches as loaded
    knockout         \* standings page: knockoutGroups, a list of [label, arr]

kvars == <<kMatches, knockout>>

\* news page: the backend's roster rows as the load reads them, the players
\* state of the two versions of the page with the lists computed from it,
\* and whether an error is shown
VARIABLES nRoster, players, players2, newsErr,
          topScorers, topAssisters, topScorers2, topAssisters2

nvars == <<nRoster, players, players2, newsErr,
           topScorers, topAssisters, topScorers2, topAssisters2>>

\* admin pages: the signed-in user of the browser (<<>> is none) and the
\* state of the matches page and of the players page
VARIABLES authUser, adminMatchesPage, adminPlayersPage

gvars == <<authUser, adminMatchesPage, adminPlayersPage>>

\* the create-match form of the admin page that is open, with the match
\* list the page shows and the number of create requests it has sent
VARIABLES createForm

fvars == <<createForm>>

\* state of the areas modelled last, one field for each: the Add Goal form
\* of a match card (goalCard), the team_groups table with the two pages that
\* assign teams to groups (grouping), the team_players table with the
\* team-players page (rosterPage)
VARIABLES ext

evars == <<ext>>

\* state of the areas added after the first four
xvars == <<kvars, nvars, gvars, fvars, evars>>

vars == <<svars, dbvars, pvars, avars, xvars>>

\* a nullable score: <<>> is null, <<n>> is the number n
NoScore == <<>>
Scores == {NoScore} \cup {<<n>> : n \in 0..MaxScore}
IsNullScore(s) == s = NoScore

OrderedPairs == {p \in Teams \X Teams : p[1] # p[2]}

\* rows of the matches table the standings page can receive
GroupRows ==
    [stage : {"group"}, group_id : Groups,
     home_team_id : Teams, away_team_id : Teams,
     status : {"finished"}, home_score : Scores, away_score : Scores]
    \cup
    [stage : {"group"}, group_id : Groups,
     home_team_id : Teams, away_team_id : Teams,
     status : {"scheduled"}, home_score : {<<MaxScore>>}, away_score : {<<0>>}]

KnockoutRows ==
    [stage : {"knockout"}, group_id : {Null},
     home_team_id : Teams, away_team_id : Teams,
     status : {"finished"}, home_score : {<<MaxScore>>}, away_score : {<<0>>}]

MatchRows == {r \in GroupRows \cup KnockoutRows : r.home_team_id # r.away_team_id}

\* the rows of team_groups for an assignment f : Teams -> Groups \cup {Null}
RECURSIVE TeamGroupRowsFrom(_, _)
TeamGroupRowsFrom(f, i) ==
    IF i > Len(TeamOrder) THEN <<>>
    ELSE LET t == TeamOrder[i]
             rest == TeamGroupRowsFrom(f, i + 1)
         IN IF f[t] = Null THEN rest
            ELSE <<[team_id |-> t, group_id |-> f[t]]>> \o rest

TeamGroupRows(f) == TeamGroupRowsFrom(f, 1)

(***************************************************************************)
(* Standings engine: the computation                                       *)
(***************************************************************************)
ZeroRow(t) ==
    [team_id |-> t, played |-> 0, won |-> 0, draw |-> 0, lost |-> 0,
     gf |-> 0, ga |-> 0, gd |-> 0, pts |-> 0]

\* rows of the table teams the page can load: nothing keeps two teams from
\* having the same name
TeamNameMaps ==
    {[t \in Teams |-> CASE t = "t1" -> "Alpha" [] t = "t2" -> "Beta" [] OTHER -> "Gamma"],
     [t \in Teams |-> CASE t = "t1" -> "Alpha" [] t = "t2" -> "Alpha" [] OTHER -> "Gamma"]}

\* display names of the teams and their alphabetical rank (localeCompare)
teamName(t) == sTeams[t]
NameRank(n) == CASE n = "" -> 0 [] n = "Alpha" -> 1 [] n = "Beta" -> 2 [] OTHER -> 3
localeCompare(a, b) == NameRank(a) - NameRank(b)

SeqHas(s, t) == \E i \in 1..Len(s) : s[i] = t
SetAdd(s, t) == IF SeqHas(s, t) THEN s ELSE Append(s, t)

\* page.tsx: teams per group from the team_groups rows, in insertion order
RECURSIVE teamsInGroupFrom(_, _, _)
teamsInGroupFrom(teamGroups, g, i) ==
    IF i = 0 THEN <<>>
    ELSE LET tg == teamGroups[i]
             before == teamsInGroupFrom(teamGroups, g, i - 1)
         IN IF tg.group_id = g THEN SetAdd(before, tg.team_id) ELSE before

teamsInGroup(teamGroups) ==
    [g \in Groups |-> teamsInGroupFrom(teamGroups, g, Len(teamGroups))]

\* part_004: teams per group derived from the group matches
RECURSIVE teamsInGroupMFrom(_, _, _)
teamsInGroupMFrom(groupMatches, g, i) ==
    IF i = 0 THEN <<>>
    ELSE LET m == groupMatches[i]
             before == teamsInGroupMFrom(groupMatches, g, i - 1)
         IN IF m.group_id = g
            THEN SetAdd(SetAdd(before, m.home_team_id), m.away_team_id)
            ELSE before

teamsInGroupM(groupMatches) ==
    [g \in Groups |-> teamsInGroupMFrom(groupMatches, g, Len(groupMatches))]

\* the table is a Map team_id -> row, kept in insertion order
tableHas(table, t) == \E i \in 1..Len(table) : table[i].team_id = t
tableIdx(table, t) == CHOOSE i \in 1..Len(table) : table[i].team_id = t
tableEnsure(table, t) == IF tableHas(table, t) THEN table ELSE Append(table, ZeroRow(t))
tableAdd(table, t, field, n) ==
    [table EXCEPT ![tableIdx(table, t)][field] = @ + n]
\* mutant: the goal difference taken the wrong way round
tableSetGdSwapped(table, t) ==
    LET i == tableIdx(table, t)
    IN [table EXCEPT ![i].gd = table[i].ga - table[i].gf]

tableSetGd(table, t) ==
    LET i == tableIdx(table, t)
    IN [table EXCEPT ![i].gd = table[i].gf - table[i].ga]

initTable(set) == [i \in 1..Len(set) |-> ZeroRow(set[i])]

\* mutant: a draw gives its point to the home team only
applyResultDrawHomeOnly(table, h, a, hs, as) ==
    IF hs > as
    THEN tableAdd(tableAdd(tableAdd(table, h, "won", 1), a, "lost", 1), h, "pts", 3)
    ELSE IF hs < as
    THEN tableAdd(tableAdd(tableAdd(table, a, "won", 1), h, "lost", 1), a, "pts", 3)
    ELSE tableAdd(tableAdd(tableAdd(table, h, "draw", 1), a, "draw", 1), h, "pts", 1)

\* the result of one match on the points and the won/draw/lost counters
applyResult(table, h, a, hs, as) ==
    IF hs > as
    THEN tableAdd(tableAdd(tableAdd(table, h, "won", 1), a, "lost", 1), h, "pts", 3)
    ELSE IF hs < as
    THEN tableAdd(tableAdd(tableAdd(table, a, "won", 1), h, "lost", 1), a, "pts", 3)
    ELSE tableAdd(tableAdd(tableAdd(tableAdd(table, h, "draw", 1), a, "draw", 1),
                           h, "pts", 1), a, "pts", 1)

\* one iteration of groupMatches.forEach for group g
applyMatch(table, m, g) ==
    IF m.group_id # g THEN table
    ELSE IF m.status # "finished" THEN table
    ELSE IF IsNullScore(m.home_score) \/ IsNullScore(m.away_score) THEN table
    ELSE LET h == m.home_team_id
             a == m.away_team_id
             hs == m.home_score[1]
             as == m.away_score[1]
             t0 == tableEnsure(tableEnsure(table, h), a)
             t1 == tableAdd(tableAdd(t0, h, "played", 1), a, "played", 1)
             t2 == tableAdd(tableAdd(t1, h, "gf", hs), h, "ga", as)
             t3 == tableAdd(tableAdd(t2, a, "gf", as), a, "ga", hs)
             t4 == applyResult(t3, h, a, hs, as)
         IN tableSetGd(tableSetGd(t4, h), a)

RECURSIVE applyMatches(_, _, _, _)
applyMatches(table, groupMatches, g, i) ==
    IF i = 0 THEN table
    ELSE applyMatch(applyMatches(table, groupMatches, g, i - 1), groupMatches[i], g)

\* mutant: the name tie-break compares b with a
rowCompareNameDesc(a, b) ==
    IF b.pts # a.pts THEN b.pts - a.pts
    ELSE IF b.gd # a.gd THEN b.gd - a.gd
    ELSE IF b.gf # a.gf THEN b.gf - a.gf
    ELSE localeCompare(teamName(b.team_id), teamName(a.team_id))

\* rows.sort comparator: negative when a sorts before b
rowCompare(a, b) ==
    IF b.pts # a.pts THEN b.pts - a.pts
    ELSE IF b.gd # a.gd THEN b.gd - a.gd
    ELSE IF b.gf # a.gf THEN b.gf - a.gf
    ELSE localeCompare(teamName(a.team_id), teamName(b.team_id))

\* stable sort of rows under rowCompare
RECURSIVE sortInsert(_, _)
sortInsert(sorted, x) ==
    IF sorted = <<>> THEN <<x>>
    ELSE IF rowCompare(Head(sorted), x) <= 0
         THEN <<Head(sorted)>> \o sortInsert(Tail(sorted), x)
         ELSE <<x>> \o sorted

RECURSIVE sortRows(_, _)
sortRows(rows, i) ==
    IF i = 0 THEN <<>> ELSE sortInsert(sortRows(rows, i - 1), rows[i])

\* the query .eq("stage", stage) of load()
selectStage(rows, stage) == SelectSeq(rows, LAMBDA m : m.stage = stage)

groupTable(set, groupMatches, g) ==
    LET table == applyMatches(initTable(set), groupMatches, g, Len(groupMatches))
    IN sortRows(table, Len(table))

\* page.tsx: one sorted table per group, teams from team_groups
standingsByGroup(teamGroups, groupMatches) ==
    [g \in Groups |-> groupTable(teamsInGroup(teamGroups)[g], groupMatches, g)]

\* part_004: one sorted table per group, teams from the matches
standingsByGroupM(groupMatches) ==
    [g \in Groups |-> groupTable(teamsInGroupM(groupMatches)[g], groupMatches, g)]

(***************************************************************************)
(* Backend tables: profiles, matches, predictions                          *)
(***************************************************************************)
Statuses == {"active", "pending", "disabled"}
NoProfile == [role |-> Null, status |-> Null]

OnlyFans == "Only fans can submit predictions."
DuplicateKey == "duplicate key value violates unique constraint"
BackendError == "backend error"

PredValues == 0..MaxPred

\* the key (match_id, user_id) of the predictions table is free
PredKeyFree(rows, m, u) == ~\E r \in rows : r.match_id = m /\ r.user_id = u

PredRow(rows, m, u, h, a) ==
    [id |-> Cardinality(rows) + 1, match_id |-> m, user_id |-> u,
     home_pred |-> h, away_pred |-> a]

\* mutant: the row is written with upsert, replacing the stored prediction
predictionsUpsert(rows, m, u, h, a) ==
    [rows |-> {r \in rows : ~(r.match_id = m /\ r.user_id = u)}
                \cup {PredRow(rows, m, u, h, a)},
     error |-> ""]

\* supabase.from("predictions").insert({...}): the new table and the error
predictionsInsert(rows, m, u, h, a) ==
    IF PredKeyFree(rows, m, u)
    THEN [rows |-> rows \cup {PredRow(rows, m, u, h, a)}, error |-> ""]
    ELSE [rows |-> rows, error |-> DuplicateKey]

\* the view prediction_leaderboard, column predictions_count
Leaderboard(rows) == [x \in Users |-> Cardinality({r \in rows : r.user_id = x})]

(***************************************************************************)
(* PredictPage and AppLayout                                               *)
(***************************************************************************)
PageUnloaded ==
    [meId |-> Null, meRole |-> Null, matches |-> [m \in MatchIds |-> "none"],
     myPreds |-> {}, leaderboard |-> [x \in Users |-> 0],
     loading |-> TRUE, msg |-> "", err |-> ""]

\* the state load() leaves behind for user u
PageLoaded(u) ==
    [meId |-> u, meRole |-> profiles[u].role, matches |-> matches,
     myPreds |-> {r \in preds : r.user_id = u}, leaderboard |-> Leaderboard(preds),
     loading |-> FALSE, msg |-> "", err |-> ""]

\* load(): on mount and on the Refresh button
PredictLoad(u) ==
    /\ appLayout[u].path = "/app"
    /\ predictPage' = [predictPage EXCEPT ![u] = PageLoaded(u)]
    /\ UNCHANGED <<svars, xvars, avars, dbvars, inflight, appLayout>>

\* UpcomingCard renders the score inputs and the Submit button for match m
FormShown(page, m) ==
    /\ ~page.loading
    /\ page.matches[m] = "scheduled"
    /\ ~\E r \in page.myPreds : r.match_id = m

\* Submit button: canPredict
canPredict(page) == page.meRole = "fan"

\* mutant: every signed-in caller may submit
roleMaySubmitAny(role) == TRUE

\* the role check of submitPrediction
roleMaySubmit(role) == role = "fan"

\* submitPrediction(matchId, home, away) up to the insert request
submitPrediction(u, m, h, a) ==
    LET page == predictPage[u]
    IN /\ appLayout[u].path = "/app"
       /\ FormShown(page, m)
       /\ IF page.meId = Null
          THEN /\ predictPage' = [predictPage EXCEPT ![u].err = "", ![u].msg = ""]
               /\ UNCHANGED inflight
          ELSE IF ~roleMaySubmit(page.meRole)
          THEN /\ predictPage' = [predictPage EXCEPT ![u].err = OnlyFans, ![u].msg = ""]
               /\ UNCHANGED inflight
          ELSE /\ Cardinality(inflight) < MaxInflight
               /\ predictPage' = [predictPage EXCEPT ![u].err = "", ![u].msg = ""]
               /\ inflight' = inflight \cup
                    {[user_id |-> page.meId, match_id |-> m, home_pred |-> h, away_pred |-> a]}
       /\ UNCHANGED <<svars, xvars, avars, dbvars, appLayout>>

\* the backend answers the insert; submitPrediction resumes after its await
submitPredictionAnswer(req, backendOk) ==
    LET res == IF backendOk
               THEN predictionsInsert(preds, req.match_id, req.user_id,
                                      req.home_pred, req.away_pred)
               ELSE [rows |-> preds, error |-> BackendError]
        u == req.user_id
    IN /\ req \in inflight
       /\ inflight' = inflight \ {req}
       /\ preds' = res.rows
       /\ IF res.error # ""
          THEN predictPage' = [predictPage EXCEPT ![u].err = res.error]
          ELSE predictPage' =
                 [predictPage EXCEPT ![u] =
                    [PageLoaded(u) EXCEPT !.myPreds = {r \in res.rows : r.user_id = u},
                                          !.leaderboard = Leaderboard(res.rows)]]
       /\ UNCHANGED <<svars, xvars, avars, profiles, matches, appLayout>>

\* AdminFansPage setStatus(id, status): Kick (Disable) / Reactivate
fansSetStatus(u, status) ==
    /\ profiles[u].role = "fan"
    /\ status \in {"disabled", "active"}
    /\ profiles' = [profiles EXCEPT ![u].status = status]
    /\ UNCHANGED <<svars, xvars, avars, matches, preds, pvars>>

\* MatchCard: Mark finished / Re-open, through updateMatch(id, {status})
updateMatchStatus(m) ==
    /\ matches[m] # "none"
    /\ matches' = [matches EXCEPT ![m] = IF @ # "finished" THEN "finished" ELSE "scheduled"]
    /\ UNCHANGED <<svars, xvars, avars, profiles, preds, pvars>>

\* AppLayout mount effect: read role and status, send pending players away
appLayoutEffect(u) ==
    LET prof == profiles[u]
    IN /\ appLayout[u].path = "/app"
       /\ appLayout' = [appLayout EXCEPT ![u] =
             [path |-> IF prof.role = "player" /\ prof.status = "pending"
                       THEN "/waiting" ELSE "/app",
              role |-> prof.role, status |-> prof.status]]
       /\ UNCHANGED <<svars, xvars, avars, dbvars, predictPage, inflight>>

IdleStandings ==
    /\ sTeams = [t \in Teams |-> ""]
    /\ sTeamGroups = <<>>
    /\ sMatches = <<>>
    /\ standings = [g \in Groups |-> <<>>]
    /\ standingsM = [g \in Groups |-> <<>>]

IdlePages ==
    /\ predictPage = [u \in Users |-> PageUnloaded]
    /\ inflight = {}
    /\ appLayout = [u \in Users |-> [path |-> "/app", role |-> Null, status |-> Null]]

IdleDb ==
    /\ profiles = [u \in Users |-> NoProfile]
    /\ matches = [m \in MatchIds |-> "none"]
    /\ preds = {}

NoResp == [ep |-> Null, token |-> Null, type |-> Null, status |-> 0, error |-> "", cascaded |-> 0]

IdleKnockout ==
    /\ kMatches = <<>>
    /\ knockout = <<>>

IdleNews ==
    /\ nRoster = <<>>
    /\ players = <<>>
    /\ players2 = <<>>
    /\ newsErr = FALSE
    /\ topScorers = <<>>
    /\ topAssisters = <<>>
    /\ topScorers2 = <<>>
    /\ topAssisters2 = <<>>

\* an admin page as mounted: requireAdmin has not returned, Loading is shown
FreshPage(path) ==
    [path |-> path, ok |-> "pending", loading |-> TRUE, loaded |-> FALSE, err |-> FALSE]

IdleGuard ==
    /\ authUser = <<>>
    /\ adminMatchesPage = FreshPage("/admin/matches")
    /\ adminPlayersPage = FreshPage("/admin/players")

\* the form as the page mounts it: group stage, nothing selected
FreshForm(page) ==
    [page |-> page, stage |-> IF page = "knockout" THEN "knockout" ELSE "group",
     groupId |-> "", homeId |-> "", awayId |-> "", err |-> "",
     list |-> {}, sent |-> 0]

IdleForm == createForm = FreshForm("admin")

\* the Add Goal form of a MatchCard as mounted, nothing submitted
FreshGoalCard ==
    [goalTeamId |-> "t1", scorerId |-> "", assistId |-> "", sent |-> {}]

\* team_groups empty; the groups page and the teams page show no assignment
\* and no error; lastOk is the group of each team's last successful call
FreshGrouping ==
    [rows |-> {},
     shown |-> [pg \in {"groups", "teams"} |-> {}],
     error |-> [pg \in {"groups", "teams"} |-> FALSE],
     lastOk |-> [t \in Teams |-> ""]]

\* team_players empty; the team-players page with no team selected
FreshRosterPage ==
    [rows |-> {}, selectedTeam |-> "", teamPlayers |-> {}, error |-> FALSE]

\* a matches page after its first load, nothing pressed yet: snapshot is
\* the database version each collection was loaded at, lastRefused the
\* message of the write the banner's mutation was refused with
FreshMatchesPage(kind) ==
    [kind |-> kind, admin |-> TRUE, version |-> 0,
     snapshot |-> <<0, 0, 0, 0, 0, 0>>, reloads |-> 0,
     busy |-> FALSE, err |-> "", inflight |-> <<>>,
     begun |-> 0, failed |-> 0, lastRefused |-> ""]

\* the matches page as mounted: channel subscribed, interval started, no
\* reload timer yet (reloadTimer is the ref, 0 for null)
FreshLivePage ==
    [mounted |-> TRUE, reloadTimer |-> 0, pending |-> {},
     intervalLeft |-> 25000 \div 125, notes |-> 0, loads |-> 0,
     unserved |-> FALSE, sinceNote |-> 250 \div 125]

\* the standings page before its effect has run: snapshot names, for each
\* state load() sets, the load that set it last (0: the empty initial
\* value); next is the fetch load() waits for (0: no load running). The
\* memoised tables are computed from this state at every render and shown
\* when loading is false
FreshStandingsPage ==
    [loading |-> TRUE, err |-> "", loadNo |-> 0, next |-> 0,
     snapshot |-> <<0, 0, 0, 0, 0>>]

\* two registered players, both pending and on the waiting page as mounted;
\* the approve-players page before its load
FreshApproval ==
    [profiles |-> [u \in {"u1", "u2"} |-> "pending"],
     rows |-> {}, err |-> "",
     msg |-> [u \in {"u1", "u2"} |-> "Checking approval status..."],
     route |-> [u \in {"u1", "u2"} |-> "/waiting"]]

ExtIdle ==
    [goalCard |-> FreshGoalCard,
     grouping |-> FreshGrouping,
     rosterPage |-> FreshRosterPage,
     matchesPage |-> FreshMatchesPage("action"),
     livePage |-> FreshLivePage,
     standingsPage |-> FreshStandingsPage,
     approval |-> FreshApproval]

IdleLater == ext = ExtIdle

IdleExtra == IdleKnockout /\ IdleNews /\ IdleGuard /\ IdleForm /\ IdleLater

IdleAdmin ==
    /\ teams = {}
    /\ groups = {}
    /\ teamPlayers = {}
    /\ goals = {}
    /\ goalSeq = 0
    /\ fkMode = "restrict"
    /\ pending = {}
    /\ lastResp = NoResp
    /\ matchesPageErr = ""

\* profiles the second user can have when the pages are opened
OtherProfiles ==
    {[role |-> "fan", status |-> "active"],
     [role |-> "player", status |-> "active"],
     [role |-> "player", status |-> "pending"],
     [role |-> "admin", status |-> "active"],
     NoProfile}

InitPredict ==
    /\ \E p \in OtherProfiles :
         profiles = [u \in Users |-> IF u = "u1" THEN [role |-> "fan", status |-> "active"] ELSE p]
    /\ matches = [m \in MatchIds |-> IF m = "m1" THEN "scheduled" ELSE "none"]
    /\ preds = {}
    /\ IdlePages
    /\ IdleStandings
    /\ IdleAdmin
    /\ IdleExtra

NextPredict ==
    \/ \E u \in Users : PredictLoad(u)
    \/ \E u \in Users, m \in MatchIds, h \in PredValues, a \in PredValues :
         submitPrediction(u, m, h, a)
    \/ \E req \in inflight, backendOk \in BOOLEAN : submitPredictionAnswer(req, backendOk)
    \/ \E u \in Users, status \in {"disabled", "active"} : fansSetStatus(u, status)
    \/ \E m \in MatchIds : updateMatchStatus(m)
    \/ \E u \in Users : appLayoutEffect(u)

SpecPredict == InitPredict /\ [][NextPredict]_vars

(***************************************************************************)
(* Admin dispatch endpoints: /api/admin/action and /api/admin              *)
(***************************************************************************)
\* Authorization header: none, a token no session answers to, or the token
\* of a user's session
Tokens == {"none", "bad"} \cup Users
ActionEp == "/api/admin/action"
RouteEp == "/api/admin"
RosterIds == {"tp1"}

MissingToken == "Missing auth token"
InvalidSession == "Invalid session"
NotAdmin == "Not admin"
NoRows == "JSON object requested, multiple (or no) rows returned"
UnknownAction == "Unknown action"
ScorerRequired == "Scorer is required"
ServerError == "Server error"
FkViolation == "violates foreign key constraint"

Resp(ep, token, type, status, error) ==
    [ep |-> ep, token |-> token, type |-> type, status |-> status,
     error |-> error, cascaded |-> 0]

requireAdminFromToken(token) ==
    IF token = "none" THEN [ok |-> FALSE, error |-> MissingToken]
    ELSE IF token = "bad" THEN [ok |-> FALSE, error |-> InvalidSession]
    ELSE IF profiles[token] = NoProfile THEN [ok |-> FALSE, error |-> NoRows]
    ELSE IF profiles[token].role # "admin" \/ profiles[token].status # "active"
         THEN [ok |-> FALSE, error |-> NotAdmin]
    ELSE [ok |-> TRUE, error |-> ""]

\* response of a branch of the action endpoint that makes one backend call
actionResp(token, type, backendOk) ==
    LET auth == requireAdminFromToken(token)
    IN IF ~auth.ok THEN Resp(ActionEp, token, type, 403, auth.error)
       ELSE IF ~backendOk THEN Resp(ActionEp, token, type, 400, BackendError)
       ELSE Resp(ActionEp, token, type, 200, "")

actionSetProfileStatus(token, id, status, backendOk) ==
    LET resp == actionResp(token, "setProfileStatus", backendOk)
    IN /\ lastResp' = resp
       /\ profiles' = IF resp.status = 200 /\ profiles[id] # NoProfile
                      THEN [profiles EXCEPT ![id].status = status] ELSE profiles
       /\ UNCHANGED <<svars, xvars, pvars, matches, preds, tvars, pending, matchesPageErr>>

actionCreateTeam(token, t, backendOk) ==
    LET resp == actionResp(token, "createTeam", backendOk)
    IN /\ t \notin teams
       /\ lastResp' = resp
       /\ teams' = IF resp.status = 200 THEN teams \cup {t} ELSE teams
       /\ UNCHANGED <<svars, xvars, pvars, dbvars, groups, teamPlayers, goals, goalSeq,
                      fkMode, pending, matchesPageErr>>

actionDeleteTeam(token, t, backendOk) ==
    LET resp == actionResp(token, "deleteTeam", backendOk)
    IN /\ lastResp' = resp
       /\ teams' = IF resp.status = 200 THEN teams \ {t} ELSE teams
       /\ UNCHANGED <<svars, xvars, pvars, dbvars, groups, teamPlayers, goals, goalSeq,
                      fkMode, pending, matchesPageErr>>

actionCreateGroup(token, g, backendOk) ==
    LET resp == actionResp(token, "createGroup", backendOk)
    IN /\ g \notin groups
       /\ lastResp' = resp
       /\ groups' = IF resp.status = 200 THEN groups \cup {g} ELSE groups
       /\ UNCHANGED <<svars, xvars, pvars, dbvars, teams, teamPlayers, goals, goalSeq,
                      fkMode, pending, matchesPageErr>>

actionDeleteGroup(token, g, backendOk) ==
    LET resp == actionResp(token, "deleteGroup", backendOk)
    IN /\ lastResp' = resp
       /\ groups' = IF resp.status = 200 THEN groups \ {g} ELSE groups
       /\ UNCHANGED <<svars, xvars, pvars, dbvars, teams, teamPlayers, goals, goalSeq,
                      fkMode, pending, matchesPageErr>>

actionAddTeamPlayer(token, tp, backendOk) ==
    LET resp == actionResp(token, "addTeamPlayer", backendOk)
    IN /\ tp \notin teamPlayers
       /\ lastResp' = resp
       /\ teamPlayers' = IF resp.status = 200 THEN teamPlayers \cup {tp} ELSE teamPlayers
       /\ UNCHANGED <<svars, xvars, pvars, dbvars, teams, groups, goals, goalSeq,
                      fkMode, pending, matchesPageErr>>

actionRemoveTeamPlayer(token, tp, backendOk) ==
    LET resp == actionResp(token, "removeTeamPlayer", backendOk)
    IN /\ lastResp' = resp
       /\ teamPlayers' = IF resp.status = 200 THEN teamPlayers \ {tp} ELSE teamPlayers
       /\ UNCHANGED <<svars, xvars, pvars, dbvars, teams, groups, goals, goalSeq,
                      fkMode, pending, matchesPageErr>>

actionCreateMatch(token, m, backendOk) ==
    LET resp == actionResp(token, "createMatch", backendOk)
    IN /\ matches[m] = "none"
       /\ lastResp' = resp
       /\ matches' = IF resp.status = 200 THEN [matches EXCEPT ![m] = "scheduled"] ELSE matches
       /\ UNCHANGED <<svars, xvars, pvars, profiles, preds, tvars, pending, matchesPageErr>>

\* update(patch).eq("id", id): a patch of the status; no row, no change
matchesUpdate(rows, m, status) ==
    IF rows[m] \in {"scheduled", "finished"} THEN [rows EXCEPT ![m] = status] ELSE rows

actionUpdateMatch(token, m, status, backendOk) ==
    LET resp == actionResp(token, "updateMatch", backendOk)
    IN /\ lastResp' = resp
       /\ matches' = IF resp.status = 200 THEN matchesUpdate(matches, m, status) ELSE matches
       /\ UNCHANGED <<svars, xvars, pvars, profiles, preds, tvars, pending, matchesPageErr>>

\* a type the endpoint has no branch for, sent by the matches page's fallback
actionUnknown(token) ==
    LET auth == requireAdminFromToken(token)
    IN /\ lastResp' = IF ~auth.ok
                      THEN Resp(ActionEp, token, "deleteGoalsByMatch", 403, auth.error)
                      ELSE Resp(ActionEp, token, "deleteGoalsByMatch", 400, UnknownAction)
       /\ UNCHANGED <<svars, xvars, pvars, dbvars, tvars, pending, matchesPageErr>>

\* a body that is not JSON: req.json() throws after the token check
actionMalformed(token) ==
    LET auth == requireAdminFromToken(token)
    IN /\ lastResp' = IF ~auth.ok
                      THEN Resp(ActionEp, token, Null, 403, auth.error)
                      ELSE Resp(ActionEp, token, Null, 500, ServerError)
       /\ UNCHANGED <<svars, xvars, pvars, dbvars, tvars, pending, matchesPageErr>>

\* /api/admin: no token is read, the backend's error is not looked at
routeDeleteRosterPlayer(token, tp, backendOk) ==
    /\ lastResp' = Resp(RouteEp, token, "deleteRosterPlayer", 200, "")
    /\ teamPlayers' = IF backendOk THEN teamPlayers \ {tp} ELSE teamPlayers
    /\ UNCHANGED <<svars, xvars, pvars, dbvars, teams, groups, goals, goalSeq,
                   fkMode, pending, matchesPageErr>>

routeDeleteTeam(token, t, backendOk) ==
    /\ lastResp' = Resp(RouteEp, token, "deleteTeam", 200, "")
    /\ teams' = IF backendOk THEN teams \ {t} ELSE teams
    /\ UNCHANGED <<svars, xvars, pvars, dbvars, groups, teamPlayers, goals, goalSeq,
                   fkMode, pending, matchesPageErr>>

routeDeleteGroup(token, g, backendOk) ==
    /\ lastResp' = Resp(RouteEp, token, "deleteGroup", 200, "")
    /\ groups' = IF backendOk THEN groups \ {g} ELSE groups
    /\ UNCHANGED <<svars, xvars, pvars, dbvars, teams, teamPlayers, goals, goalSeq,
                   fkMode, pending, matchesPageErr>>

routeUpdateMatch(token, m, status, backendOk) ==
    /\ lastResp' = Resp(RouteEp, token, "updateMatch", 200, "")
    /\ matches' = IF backendOk THEN matchesUpdate(matches, m, status) ELSE matches
    /\ UNCHANGED <<svars, xvars, pvars, profiles, preds, tvars, pending, matchesPageErr>>

routeUnknown(token) ==
    /\ lastResp' = Resp(RouteEp, token, "deleteGoalsByMatch", 400, UnknownAction)
    /\ UNCHANGED <<svars, xvars, pvars, dbvars, tvars, pending, matchesPageErr>>

\* a body without payload: the destructuring throws, the catch answers 500
routeMalformed(token) ==
    /\ lastResp' = Resp(RouteEp, token, Null, 500, ServerError)
    /\ UNCHANGED <<svars, xvars, pvars, dbvars, tvars, pending, matchesPageErr>>

AdminTeamIds == {"t1"}
AdminGroupIds == {"g1"}
AdminMatchIds == {"m1"}

AdminOtherProfiles == OtherProfiles \cup {[role |-> "admin", status |-> "disabled"]}

InitAdmin ==
    /\ \E p \in AdminOtherProfiles :
         profiles = [u \in Users |-> IF u = "u1" THEN [role |-> "admin", status |-> "active"] ELSE p]
    /\ matches = [m \in MatchIds |-> "none"]
    /\ preds = {}
    /\ IdlePages
    /\ IdleStandings
    /\ IdleAdmin
    /\ IdleExtra

NextAdmin ==
    \/ \E token \in Tokens, id \in Users, status \in {"active", "disabled"}, backendOk \in BOOLEAN :
         actionSetProfileStatus(token, id, status, backendOk)
    \/ \E token \in Tokens, t \in AdminTeamIds, backendOk \in BOOLEAN :
         actionCreateTeam(token, t, backendOk)
    \/ \E token \in Tokens, t \in AdminTeamIds, backendOk \in BOOLEAN :
         actionDeleteTeam(token, t, backendOk)
    \/ \E token \in Tokens, g \in AdminGroupIds, backendOk \in BOOLEAN :
         actionCreateGroup(token, g, backendOk)
    \/ \E token \in Tokens, g \in AdminGroupIds, backendOk \in BOOLEAN :
         actionDeleteGroup(token, g, backendOk)
    \/ \E token \in Tokens, tp \in RosterIds, backendOk \in BOOLEAN :
         actionAddTeamPlayer(token, tp, backendOk)
    \/ \E token \in Tokens, tp \in RosterIds, backendOk \in BOOLEAN :
         actionRemoveTeamPlayer(token, tp, backendOk)
    \/ \E token \in Tokens, m \in AdminMatchIds, backendOk \in BOOLEAN :
         actionCreateMatch(token, m, backendOk)
    \/ \E token \in Tokens, m \in AdminMatchIds, status \in {"scheduled", "finished"}, backendOk \in BOOLEAN :
         actionUpdateMatch(token, m, status, backendOk)
    \/ \E token \in Tokens : actionUnknown(token)
    \/ \E token \in Tokens : actionMalformed(token)
    \/ \E token \in Tokens, tp \in RosterIds, backendOk \in BOOLEAN :
         routeDeleteRosterPlayer(token, tp, backendOk)
    \/ \E token \in Tokens, t \in AdminTeamIds, backendOk \in BOOLEAN :
         routeDeleteTeam(token, t, backendOk)
    \/ \E token \in Tokens, g \in AdminGroupIds, backendOk \in BOOLEAN :
         routeDeleteGroup(token, g, backendOk)
    \/ \E token \in Tokens, m \in AdminMatchIds, status \in {"scheduled", "finished"}, backendOk \in BOOLEAN :
         routeUpdateMatch(token, m, status, backendOk)
    \/ \E token \in Tokens : routeUnknown(token)
    \/ \E token \in Tokens : routeMalformed(token)

SpecAdmin == InitAdmin /\ [][NextAdmin]_vars

(***************************************************************************)
(* Matches and goal events: the backend's referential constraint           *)
(***************************************************************************)
FkModes == {"restrict", "cascade"}
GoalsOf(rows, m) == {g \in rows : g.match_id = m}

\* mutant: match_goals.match_id is not a foreign key
matchesDeleteNoFk(ms, gs, m, mode) ==
    [matches |-> [ms EXCEPT ![m] = IF @ = "none" THEN @ ELSE "deleted"],
     goals |-> gs, error |-> "", cascaded |-> 0]

\* from("matches").delete().eq("id", m) under the constraint: the new tables,
\* the error and the number of goal events the constraint removed
matchesDelete(ms, gs, m, mode) ==
    IF GoalsOf(gs, m) = {}
    THEN [matches |-> [ms EXCEPT ![m] = IF @ = "none" THEN @ ELSE "deleted"],
          goals |-> gs, error |-> "", cascaded |-> 0]
    ELSE IF mode = "cascade"
    THEN [matches |-> [ms EXCEPT ![m] = "deleted"],
          goals |-> gs \ GoalsOf(gs, m), error |-> "",
          cascaded |-> Cardinality(GoalsOf(gs, m))]
    ELSE [matches |-> ms, goals |-> gs, error |-> FkViolation, cascaded |-> 0]

\* from("match_goals").insert(goal) under the constraint
matchGoalsInsert(gs, ms, m, id) ==
    IF ms[m] \in {"scheduled", "finished"}
    THEN [goals |-> gs \cup {[id |-> id, match_id |-> m]}, error |-> ""]
    ELSE [goals |-> gs, error |-> FkViolation]

(***************************************************************************)
(* deleteMatch, addGoal, deleteGoal                                        *)
(***************************************************************************)
Call(via, token, m, removed) ==
    [via |-> via, token |-> token, match_id |-> m, removed |-> removed]

\* /api/admin/action, type deleteMatch, up to the first backend call
actionDeleteMatchGoals(token, m, backendOk) ==
    LET auth == requireAdminFromToken(token)
    IN /\ matches[m] # "none"
       /\ Cardinality(pending) < MaxInflight
       /\ IF ~auth.ok
          THEN /\ lastResp' = Resp(ActionEp, token, "deleteMatch", 403, auth.error)
               /\ UNCHANGED <<goals, pending>>
          ELSE IF ~backendOk
          THEN /\ lastResp' = Resp(ActionEp, token, "deleteMatch", 400, BackendError)
               /\ UNCHANGED <<goals, pending>>
          ELSE /\ goals' = goals \ GoalsOf(goals, m)
               /\ pending' = pending \cup {Call(ActionEp, token, m, GoalsOf(goals, m))}
               /\ UNCHANGED lastResp
       /\ UNCHANGED <<svars, xvars, pvars, dbvars, teams, groups, teamPlayers, goalSeq,
                      fkMode, matchesPageErr>>

\* /api/admin/action, type deleteMatch, the second backend call and the answer
actionDeleteMatchRow(call, backendOk) ==
    LET del == IF backendOk
               THEN matchesDelete(matches, goals, call.match_id, fkMode)
               ELSE [matches |-> matches, goals |-> goals, error |-> BackendError,
                     cascaded |-> 0]
    IN /\ call \in pending
       /\ call.via = ActionEp
       /\ pending' = pending \ {call}
       /\ matches' = del.matches
       /\ goals' = del.goals
       /\ lastResp' = [Resp(ActionEp, call.token, "deleteMatch",
                            IF del.error = "" THEN 200 ELSE 400, del.error)
                         EXCEPT !.cascaded = del.cascaded]
       /\ UNCHANGED <<svars, xvars, pvars, profiles, preds, teams, groups, teamPlayers,
                      goalSeq, fkMode, matchesPageErr>>

\* matches page that writes directly: deleteMatch up to the first backend call
directDeleteMatchGoals(m, backendOk) ==
    /\ matches[m] # "none"
    /\ Cardinality(pending) < MaxInflight
    /\ IF ~backendOk
       THEN /\ matchesPageErr' = BackendError
            /\ UNCHANGED <<goals, pending>>
       ELSE /\ matchesPageErr' = ""
            /\ goals' = goals \ GoalsOf(goals, m)
            /\ pending' = pending \cup {Call("direct", Null, m, GoalsOf(goals, m))}
    /\ UNCHANGED <<svars, xvars, pvars, dbvars, teams, groups, teamPlayers, goalSeq,
                   fkMode, lastResp>>

\* matches page that writes directly: the second backend call of deleteMatch
directDeleteMatchRow(call, backendOk) ==
    LET del == IF backendOk
               THEN matchesDelete(matches, goals, call.match_id, fkMode)
               ELSE [matches |-> matches, goals |-> goals, error |-> BackendError,
                     cascaded |-> 0]
    IN /\ call \in pending
       /\ call.via = "direct"
       /\ pending' = pending \ {call}
       /\ matches' = del.matches
       /\ goals' = del.goals
       /\ matchesPageErr' = del.error
       /\ UNCHANGED <<svars, xvars, pvars, profiles, preds, teams, groups, teamPlayers,
                      goalSeq, fkMode, lastResp>>

\* /api/admin/action, type addGoal
actionAddGoal(token, m, scorer, backendOk) ==
    LET auth == requireAdminFromToken(token)
        ins == IF backendOk
               THEN matchGoalsInsert(goals, matches, m, goalSeq + 1)
               ELSE [goals |-> goals, error |-> BackendError]
    IN /\ goalSeq < MaxGoals
       /\ IF ~auth.ok
          THEN /\ lastResp' = Resp(ActionEp, token, "addGoal", 403, auth.error)
               /\ UNCHANGED <<goals, goalSeq>>
          ELSE IF scorer = Null
          THEN /\ lastResp' = Resp(ActionEp, token, "addGoal", 400, ScorerRequired)
               /\ UNCHANGED <<goals, goalSeq>>
          ELSE /\ goals' = ins.goals
               /\ goalSeq' = IF ins.error = "" THEN goalSeq + 1 ELSE goalSeq
               /\ lastResp' = Resp(ActionEp, token, "addGoal",
                                   IF ins.error = "" THEN 200 ELSE 400, ins.error)
       /\ UNCHANGED <<svars, xvars, pvars, dbvars, teams, groups, teamPlayers, fkMode,
                      pending, matchesPageErr>>

\* /api/admin/action, type deleteGoal
actionDeleteGoal(token, id, backendOk) ==
    LET resp == actionResp(token, "deleteGoal", backendOk)
    IN /\ lastResp' = resp
       /\ goals' = IF resp.status = 200 THEN {g \in goals : g.id # id} ELSE goals
       /\ UNCHANGED <<svars, xvars, pvars, dbvars, teams, groups, teamPlayers, goalSeq,
                      fkMode, pending, matchesPageErr>>

MatchTokens == {"u1", "u2", "none"}

InitMatch ==
    /\ profiles = [u \in Users |-> IF u = "u1" THEN [role |-> "admin", status |-> "active"]
                                   ELSE [role |-> "fan", status |-> "active"]]
    /\ matches = [m \in MatchIds |-> "scheduled"]
    /\ preds = {}
    /\ teams = {}
    /\ groups = {}
    /\ teamPlayers = {}
    /\ goals = {}
    /\ goalSeq = 0
    /\ fkMode \in FkModes
    /\ pending = {}
    /\ lastResp = NoResp
    /\ matchesPageErr = ""
    /\ IdlePages
    /\ IdleStandings
    /\ IdleExtra

NextMatch ==
    \/ \E token \in MatchTokens, m \in MatchIds, backendOk \in BOOLEAN :
         actionDeleteMatchGoals(token, m, backendOk)
    \/ \E call \in pending, backendOk \in BOOLEAN : actionDeleteMatchRow(call, backendOk)
    \/ \E m \in MatchIds, backendOk \in BOOLEAN : directDeleteMatchGoals(m, backendOk)
    \/ \E call \in pending, backendOk \in BOOLEAN : directDeleteMatchRow(call, backendOk)
    \/ \E token \in MatchTokens, m \in MatchIds, scorer \in {Null, "p1"}, backendOk \in BOOLEAN :
         actionAddGoal(token, m, scorer, backendOk)
    \/ \E token \in MatchTokens, id \in 1..MaxGoals, backendOk \in BOOLEAN :
         actionDeleteGoal(token, id, backendOk)

SpecMatch == InitMatch /\ [][NextMatch]_vars

(***************************************************************************)
(* Standings engine: specification                                         *)
(***************************************************************************)
InitStandings ==
    /\ sTeams \in TeamNameMaps
    /\ \E f \in [Teams -> Groups \cup {Null}] : sTeamGroups = TeamGroupRows(f)
    /\ sMatches = <<>>
    /\ standings = standingsByGroup(sTeamGroups, <<>>)
    /\ standingsM = standingsByGroupM(<<>>)
    /\ IdleDb
    /\ IdlePages
    /\ IdleAdmin
    /\ IdleExtra

\* load() of the standings page receives one more match row; the memoised
\* tables are recomputed from the new snapshot
StandingsLoad ==
    /\ Len(sMatches) < MaxMatches
    /\ \E r \in MatchRows :
         /\ sMatches' = Append(sMatches, r)
         /\ standings' = standingsByGroup(sTeamGroups, selectStage(sMatches', "group"))
         /\ standingsM' = standingsByGroupM(selectStage(sMatches', "group"))
    /\ UNCHANGED <<sTeams, sTeamGroups, dbvars, pvars, avars, xvars>>

NextStandings == StandingsLoad

SpecStandings == InitStandings /\ [][NextStandings]_vars

(***************************************************************************)
(* Standings page: knockout rounds                                         *)
(***************************************************************************)
\* labels are sequences of characters; a nullable value v is <<>> or <<v>>
Str_Final == <<"F", "i", "n", "a", "l">>
Str_final == <<"f", "i", "n", "a", "l">>
Str_FinalPadded == <<" ", "F", "i", "n", "a", "l", " ">>
Str_F == <<"F">>
Str_RoundOf16 == <<"R", "o", "u", "n", "d", " ", "o", "f", " ", "1", "6">>
Str_Quarterfinal == <<"Q", "u", "a", "r", "t", "e", "r", "f", "i", "n", "a", "l">>
Str_QF == <<"Q", "F">>
Str_QF1 == <<"Q", "F", " ", "1">>
Str_Semifinal == <<"S", "e", "m", "i", "f", "i", "n", "a", "l">>
Str_Bronze == <<"B", "r", "o", "n", "z", "e">>
Str_Knockout == <<"K", "n", "o", "c", "k", "o", "u", "t">>
Str_Playoff == <<"P", "l", "a", "y", "o", "f", "f">>
Str_Extra == <<"E", "x", "t", "r", "a">>
Str_Blank == <<" ", " ">>
Str_Empty == <<>>

\* values of matches.knockout_round in the model
RoundLabels ==
    {<<>>, <<Str_Empty>>, <<Str_Blank>>, <<Str_Final>>, <<Str_final>>,
     <<Str_FinalPadded>>, <<Str_F>>, <<Str_RoundOf16>>, <<Str_Quarterfinal>>,
     <<Str_QF>>, <<Str_QF1>>, <<Str_Semifinal>>, <<Str_Bronze>>,
     <<Str_Knockout>>, <<Str_Playoff>>, <<Str_Extra>>}

Upper == <<"A", "B", "C", "D", "E", "F", "G", "H", "I", "J", "K", "L", "M",
           "N", "O", "P", "Q", "R", "S", "T", "U", "V", "W", "X", "Y", "Z">>
Lower == <<"a", "b", "c", "d", "e", "f", "g", "h", "i", "j", "k", "l", "m",
           "n", "o", "p", "q", "r", "s", "t", "u", "v", "w", "x", "y", "z">>
Digits == <<"0", "1", "2", "3", "4", "5", "6", "7", "8", "9">>

IndexIn(s, c) == IF \E i \in 1..Len(s) : s[i] = c
                 THEN CHOOSE i \in 1..Len(s) : s[i] = c ELSE 0

\* String.prototype.toLowerCase
charLower(c) == IF IndexIn(Upper, c) > 0 THEN Lower[IndexIn(Upper, c)] ELSE c
toLowerCase(s) == [i \in 1..Len(s) |-> charLower(s[i])]

\* String.prototype.trim
RECURSIVE trimStart(_)
trimStart(s) == IF s # <<>> /\ Head(s) = " " THEN trimStart(Tail(s)) ELSE s
RECURSIVE trimEnd(_)
trimEnd(s) == IF s # <<>> /\ s[Len(s)] = " " THEN trimEnd(SubSeq(s, 1, Len(s) - 1)) ELSE s
trim(s) == trimEnd(trimStart(s))

\* String.prototype.includes
includes(s, sub) ==
    \E i \in 0..(Len(s) - Len(sub)) : SubSeq(s, i + 1, i + Len(sub)) = sub

\* String.prototype.localeCompare: letters without case first (space, then
\* digits, then letters), then lower case before upper case
charKey(c) ==
    IF c = " " THEN 0
    ELSE IF IndexIn(Digits, c) > 0 THEN IndexIn(Digits, c)
    ELSE 10 + IndexIn(Lower, charLower(c))
charCase(c) == IF IndexIn(Upper, c) > 0 THEN 1 ELSE 0

RECURSIVE seqCompare(_, _)
seqCompare(a, b) ==
    IF a = <<>> /\ b = <<>> THEN 0
    ELSE IF a = <<>> THEN -1
    ELSE IF b = <<>> THEN 1
    ELSE IF Head(a) # Head(b) THEN Head(a) - Head(b)
    ELSE seqCompare(Tail(a), Tail(b))

strCompare(a, b) ==
    LET primary == seqCompare([i \in 1..Len(a) |-> charKey(a[i])],
                              [i \in 1..Len(b) |-> charKey(b[i])])
    IN IF primary # 0 THEN primary
       ELSE seqCompare([i \in 1..Len(a) |-> charCase(a[i])],
                       [i \in 1..Len(b) |-> charCase(b[i])])

normRoundLabel(x) ==
    LET s == trim(IF x = <<>> THEN <<>> ELSE x[1])
    IN IF Len(s) > 0 THEN s ELSE Str_Knockout

\* mutant: "final" is looked for before the other words
roundOrderFinalFirst(label) ==
    LET x == toLowerCase(label)
    IN IF includes(x, <<"f", "i", "n", "a", "l">>) \/ x = <<"f">> THEN 5
       ELSE IF \/ includes(x, <<"r", "o", "u", "n", "d", " ", "o", "f", " ", "1", "6">>)
               \/ includes(x, <<"r", "1", "6">>)
               \/ includes(x, <<"r", "o", "1", "6">>) THEN 1
       ELSE IF includes(x, <<"q", "u", "a", "r", "t", "e", "r">>) \/ x = <<"q", "f">> THEN 2
       ELSE IF includes(x, <<"s", "e", "m", "i">>) \/ x = <<"s", "f">> THEN 3
       ELSE IF \/ includes(x, <<"t", "h", "i", "r", "d">>)
               \/ includes(x, <<"3", "r", "d">>)
               \/ includes(x, <<"b", "r", "o", "n", "z", "e">>) THEN 4
       ELSE IF x = <<"k", "n", "o", "c", "k", "o", "u", "t">> THEN 99
       ELSE 50

roundOrder(label) ==
    LET x == toLowerCase(label)
    IN IF \/ includes(x, <<"r", "o", "u", "n", "d", " ", "o", "f", " ", "1", "6">>)
          \/ includes(x, <<"r", "1", "6">>)
          \/ includes(x, <<"r", "o", "1", "6">>) THEN 1
       ELSE IF includes(x, <<"q", "u", "a", "r", "t", "e", "r">>) \/ x = <<"q", "f">> THEN 2
       ELSE IF includes(x, <<"s", "e", "m", "i">>) \/ x = <<"s", "f">> THEN 3
       ELSE IF \/ includes(x, <<"t", "h", "i", "r", "d">>)
               \/ includes(x, <<"3", "r", "d">>)
               \/ includes(x, <<"b", "r", "o", "n", "z", "e">>) THEN 4
       ELSE IF includes(x, <<"f", "i", "n", "a", "l">>) \/ x = <<"f">> THEN 5
       ELSE IF x = <<"k", "n", "o", "c", "k", "o", "u", "t">> THEN 99
       ELSE 50

\* mutant: a label seen before starts its bucket again
bucketPushReplace(entries, label, m) ==
    IF \E i \in 1..Len(entries) : entries[i].label = label
    THEN [i \in 1..Len(entries) |->
            IF entries[i].label = label THEN [entries[i] EXCEPT !.arr = <<m>>]
            ELSE entries[i]]
    ELSE Append(entries, [label |-> label, arr |-> <<m>>])

\* if (!map.has(label)) map.set(label, []); map.get(label).push(m)
bucketPush(entries, label, m) ==
    IF \E i \in 1..Len(entries) : entries[i].label = label
    THEN [i \in 1..Len(entries) |->
            IF entries[i].label = label THEN [entries[i] EXCEPT !.arr = Append(@, m)]
            ELSE entries[i]]
    ELSE Append(entries, [label |-> label, arr |-> <<m>>])

RECURSIVE groupByRound(_, _)
groupByRound(rows, i) ==
    IF i = 0 THEN <<>>
    ELSE bucketPush(groupByRound(rows, i - 1), normRoundLabel(rows[i].knockout_round), rows[i])

\* roundOrder(a[0]) - roundOrder(b[0]) || a[0].localeCompare(b[0])
entryCompare(a, b) ==
    IF roundOrder(a.label) - roundOrder(b.label) # 0
    THEN roundOrder(a.label) - roundOrder(b.label)
    ELSE strCompare(a.label, b.label)

RECURSIVE entryInsert(_, _)
entryInsert(sorted, x) ==
    IF sorted = <<>> THEN <<x>>
    ELSE IF entryCompare(Head(sorted), x) <= 0
         THEN <<Head(sorted)>> \o entryInsert(Tail(sorted), x)
         ELSE <<x>> \o sorted

RECURSIVE sortEntries(_, _)
sortEntries(entries, i) ==
    IF i = 0 THEN <<>> ELSE entryInsert(sortEntries(entries, i - 1), entries[i])

\* x.start_time ? new Date(x.start_time).getTime() : 0
startMillis(x) == IF x.start_time = <<>> THEN 0 ELSE x.start_time[1]

timeCompare(x, y) == startMillis(x) - startMillis(y)

RECURSIVE timeInsert(_, _)
timeInsert(sorted, x) ==
    IF sorted = <<>> THEN <<x>>
    ELSE IF timeCompare(Head(sorted), x) <= 0
         THEN <<Head(sorted)>> \o timeInsert(Tail(sorted), x)
         ELSE <<x>> \o sorted

RECURSIVE sortByTime(_, _)
sortByTime(arr, i) ==
    IF i = 0 THEN <<>> ELSE timeInsert(sortByTime(arr, i - 1), arr[i])

\* the useMemo knockoutGroups: buckets by label, ordered, each ordered by time
knockoutGroups(knockoutMatches) ==
    LET grouped == groupByRound(knockoutMatches, Len(knockoutMatches))
        entries == sortEntries(grouped, Len(grouped))
    IN [i \in 1..Len(entries) |->
          [entries[i] EXCEPT !.arr = sortByTime(@, Len(@))]]

StartTimes == {<<>>} \cup {<<n>> : n \in 1..MaxTime}

\* .order("start_time", { ascending: true, nullsFirst: false })
QueryOrdered(rows) ==
    \A i, j \in 1..Len(rows) :
        i < j => IF rows[j].start_time = <<>> THEN TRUE
                 ELSE IF rows[i].start_time = <<>> THEN FALSE
                 ELSE rows[i].start_time[1] <= rows[j].start_time[1]

InsertAt(s, pos, x) == SubSeq(s, 1, pos - 1) \o <<x>> \o SubSeq(s, pos, Len(s))

InitKnockout ==
    /\ kMatches = <<>>
    /\ knockout = <<>>
    /\ IdleStandings
    /\ IdleDb
    /\ IdlePages
    /\ IdleAdmin
    /\ IdleNews
    /\ IdleGuard
    /\ IdleForm
    /\ IdleLater

\* load(): the knockout matches arrive in the query's order; one more match
\* exists than at the load before
KnockoutLoad ==
    /\ Len(kMatches) < MaxKnockout
    /\ \E label \in RoundLabels, t \in StartTimes, pos \in 1..(Len(kMatches) + 1) :
         LET row == [id |-> Len(kMatches) + 1, knockout_round |-> label, start_time |-> t]
         IN /\ QueryOrdered(InsertAt(kMatches, pos, row))
            /\ kMatches' = InsertAt(kMatches, pos, row)
    /\ knockout' = knockoutGroups(kMatches')
    /\ UNCHANGED <<svars, dbvars, pvars, avars, nvars, gvars, fvars, evars>>

NextKnockout == KnockoutLoad

SpecKnockout == InitKnockout /\ [][NextKnockout]_vars

(***************************************************************************)
(* News page: top scorers and top assisters                                *)
(***************************************************************************)

\* rows the backend may gain while the page is in use
MaxNew == 2
\* largest goals or assists count of such a row
MaxStat == 2

\* arr.slice(0, 10)
TopLimit == 10

Str_abe == <<"a", "b", "e">>
Str_abePadded == <<" ", "a", "b", "e">>
Str_Zed == <<"Z", "e", "d">>
Str_Unknown == <<"U", "n", "k", "n", "o", "w", "n">>

DisplayNames == {Str_abe, Str_abePadded, Str_Zed}

\* a nullable team id: <<>> is null (the player is on no team)
TeamRefs == {<<>>, <<"t1">>}

\* ten players of team t1 named p0 .. p9, with one to five goals and one or
\* two assists, no two with the same goals and assists
SquadOfTen ==
    [i \in 1..TopLimit |->
        [id |-> i, display_name |-> <<"p", Digits[i]>>, team_id |-> <<"t1">>,
         goals |-> 1 + ((i - 1) \div 2), assists |-> 1 + ((i - 1) % 2)]]

\* Array.prototype.sort with a consistent comparator: a stable sort
sortWith(Cmp(_, _), s) ==
    LET before(i) ==
            Cardinality({j \in 1..Len(s) :
                \/ Cmp(s[j], s[i]) < 0
                \/ Cmp(s[j], s[i]) = 0 /\ j < i})
        placed == {<<before(i) + 1, i>> : i \in 1..Len(s)}
    IN [k \in 1..Len(s) |-> s[(CHOOSE p \in placed : p[1] = k)[2]]]

slice(s, n) == SubSeq(s, 1, IF Len(s) < n THEN Len(s) ELSE n)

\* Array.prototype.filter
filter(Keep(_), s) == SelectSeq(s, Keep)

\* first version of the page: the flat rows of team_players
flatRow(r) ==
    [id |-> r.id, display_name |-> r.display_name, team_id |-> r.team_id[1],
     goals |-> r.goals, assists |-> r.assists]

onTeam(r) == r.team_id # <<>>

flat(tp) == LET rows == filter(onTeam, tp)
            IN [k \in 1..Len(rows) |-> flatRow(rows[k])]

\* goals first where the page puts the name first
scorerCompareNameFirst(a, b) ==
    IF strCompare(a.display_name, b.display_name) # 0
    THEN strCompare(a.display_name, b.display_name)
    ELSE IF b.goals # a.goals THEN b.goals - a.goals
    ELSE b.assists - a.assists

scorerCompare(a, b) ==
    IF b.goals # a.goals THEN b.goals - a.goals
    ELSE IF b.assists # a.assists THEN b.assists - a.assists
    ELSE strCompare(a.display_name, b.display_name)

assisterCompare(a, b) ==
    IF b.assists # a.assists THEN b.assists - a.assists
    ELSE IF b.goals # a.goals THEN b.goals - a.goals
    ELSE strCompare(a.display_name, b.display_name)

topScorersMemo(ps) == slice(sortWith(scorerCompare, ps), TopLimit)
topAssistersMemo(ps) == slice(sortWith(assisterCompare, ps), TopLimit)

\* second version of the page: every roster player, the name made safe
safeName(x) ==
    IF trim(x.display_name) # <<>> THEN trim(x.display_name) ELSE Str_Unknown

flatRow2(r) ==
    [id |-> r.id, name |-> safeName(r), team_id |-> r.team_id,
     goals |-> r.goals, assists |-> r.assists]

flatAssigned(tp) == LET rows == filter(onTeam, tp)
                    IN [k \in 1..Len(rows) |-> flatRow2(rows[k])]

allFlat(allP) == [k \in 1..Len(allP) |-> flatRow2(allP[k])]

scorerCompare2(a, b) ==
    IF b.goals # a.goals THEN b.goals - a.goals
    ELSE IF b.assists # a.assists THEN b.assists - a.assists
    ELSE strCompare(a.name, b.name)

assisterCompare2(a, b) ==
    IF b.assists # a.assists THEN b.assists - a.assists
    ELSE IF b.goals # a.goals THEN b.goals - a.goals
    ELSE strCompare(a.name, b.name)

topScorersMemo2(ps) == slice(sortWith(scorerCompare2, filter(onTeam, ps)), TopLimit)
topAssistersMemo2(ps) == slice(sortWith(assisterCompare2, filter(onTeam, ps)), TopLimit)

\* outcomes of the queries of load()
LoadResults == {"ok", "tpErr", "allPErr"}

NewRows(n) ==
    {[id |-> n + 1, display_name |-> d, team_id |-> t, goals |-> g, assists |-> a] :
        d \in DisplayNames, t \in TeamRefs, g \in 1..MaxStat, a \in 1..MaxStat}

Grown(rows) == Len(rows) >= TopLimit /\ rows[TopLimit] = SquadOfTen[TopLimit]
NewCount(rows) == IF Grown(rows) THEN Len(rows) - TopLimit ELSE Len(rows)

InitNews ==
    /\ nRoster \in {<<>>, SquadOfTen}
    /\ players = <<>>
    /\ players2 = <<>>
    /\ newsErr = FALSE
    /\ topScorers = <<>>
    /\ topAssisters = <<>>
    /\ topScorers2 = <<>>
    /\ topAssisters2 = <<>>
    /\ IdleStandings
    /\ IdleDb
    /\ IdlePages
    /\ IdleAdmin
    /\ IdleKnockout
    /\ IdleGuard
    /\ IdleForm
    /\ IdleLater

\* load(): the roster the queries read is the one read before, with at most
\* one more row; a failed teams or team_players query leaves players as it
\* was, a failed players query leaves the second version with the team rows.
\* The lists are recomputed from the players state.
NewsLoad ==
    /\ \E res \in LoadResults :
         /\ \/ nRoster' = nRoster
            \/ /\ res # "tpErr"
               /\ NewCount(nRoster) < MaxNew
               /\ \E row \in NewRows(Len(nRoster)) : nRoster' = Append(nRoster, row)
         /\ newsErr' = (res = "tpErr")
         /\ players' = IF res = "tpErr" THEN players ELSE flat(nRoster')
         /\ players2' = CASE res = "tpErr" -> players2
                          [] res = "allPErr" -> flatAssigned(nRoster')
                          [] OTHER -> allFlat(nRoster')
    /\ topScorers' = topScorersMemo(players')
    /\ topAssisters' = topAssistersMemo(players')
    /\ topScorers2' = topScorersMemo2(players2')
    /\ topAssisters2' = topAssistersMemo2(players2')
    /\ UNCHANGED <<svars, dbvars, pvars, avars, kvars, gvars, fvars, evars>>

NextNews == NewsLoad

SpecNews == InitNews /\ [][NextNews]_vars

(***************************************************************************)
(* Admin pages: requireAdmin and the mount effect                          *)
(***************************************************************************)

GuardProfiles == AdminOtherProfiles

\* supabase.auth.getUser()
Sessions == {<<>>} \cup {<<u>> : u \in Users}

\* .from("profiles").select("role,status").eq("id", user).single(): <<>> is
\* an error (the backend failed, or the user has no row), <<p>> the row
readProfile(u, backendOk) ==
    IF ~backendOk \/ profiles[u] = NoProfile THEN <<>> ELSE <<profiles[u]>>

\* me?.role !== "admin" || me?.status !== "active", negated
isActiveAdminRow(me) ==
    me # <<>> /\ me[1].role = "admin" /\ me[1].status = "active"

\* requireAdmin of the matches page: what it returns, where the router is
\* afterwards, whether it set err
requireAdminMatches(path, backendOk) ==
    IF authUser = <<>> THEN [ok |-> "false", path |-> "/register", err |-> FALSE]
    ELSE IF readProfile(authUser[1], backendOk) = <<>>
         THEN [ok |-> "false", path |-> path, err |-> TRUE]
    ELSE IF ~isActiveAdminRow(readProfile(authUser[1], backendOk))
         THEN [ok |-> "false", path |-> "/app", err |-> FALSE]
    ELSE [ok |-> "true", path |-> path, err |-> FALSE]

\* requireAdmin of the players page: without a user it returns what
\* router.push returns, which is undefined
requireAdminPlayers(path, backendOk) ==
    IF authUser = <<>> THEN [ok |-> "undefined", path |-> "/register", err |-> FALSE]
    ELSE IF ~isActiveAdminRow(readProfile(authUser[1], backendOk))
         THEN [ok |-> "false", path |-> "/app", err |-> FALSE]
    ELSE [ok |-> "true", path |-> path, err |-> FALSE]

InitGuard ==
    /\ authUser \in Sessions
    /\ profiles \in [Users -> GuardProfiles]
    /\ matches = [m \in MatchIds |-> "none"]
    /\ preds = {}
    /\ adminMatchesPage = FreshPage("/admin/matches")
    /\ adminPlayersPage = FreshPage("/admin/players")
    /\ IdlePages
    /\ IdleStandings
    /\ IdleAdmin
    /\ IdleKnockout
    /\ IdleNews
    /\ IdleForm
    /\ IdleLater

\* AdminMatchesPage, effect on mount: requireAdmin, and loadAll when it
\* returned true; loadAll ends with setLoading(false) whether it failed or not
AdminMatchesPageEffect ==
    /\ adminMatchesPage.ok = "pending"
    /\ \E backendOk, loadOk \in BOOLEAN :
         LET r == requireAdminMatches(adminMatchesPage.path, backendOk)
         IN adminMatchesPage' =
              IF r.ok # "true"
              THEN [adminMatchesPage EXCEPT !.ok = r.ok, !.path = r.path, !.err = r.err]
              ELSE [adminMatchesPage EXCEPT !.ok = r.ok, !.loading = FALSE,
                                            !.loaded = loadOk, !.err = ~loadOk]
    /\ UNCHANGED <<svars, dbvars, pvars, avars, kvars, nvars, fvars, authUser, adminPlayersPage, evars>>

\* AdminPlayersPage, effect on mount: requireAdmin, then load and
\* setLoading(false) when it returned true; load ignores query errors
AdminPlayersPageEffect ==
    /\ adminPlayersPage.ok = "pending"
    /\ \E backendOk \in BOOLEAN :
         LET r == requireAdminPlayers(adminPlayersPage.path, backendOk)
         IN adminPlayersPage' =
              IF r.ok # "true"
              THEN [adminPlayersPage EXCEPT !.ok = r.ok, !.path = r.path]
              ELSE [adminPlayersPage EXCEPT !.ok = r.ok, !.loading = FALSE, !.loaded = TRUE]
    /\ UNCHANGED <<svars, dbvars, pvars, avars, kvars, nvars, fvars, authUser, adminMatchesPage, evars>>

NextGuard ==
    \/ AdminMatchesPageEffect
    \/ AdminPlayersPageEffect

SpecGuard == InitGuard /\ [][NextGuard]_vars

(***************************************************************************)
(* Admin pages: the create-match form                                      *)
(***************************************************************************)

\* create requests one page sends
MaxSent == 2

\* the matches page that writes through the API ("admin"), the one that
\* writes to the backend itself ("direct"), and the knockout page
FormPages == {"admin", "direct", "knockout"}

FormTeams == {"", "t1", "t2"}
FormGroups == {"", "g1"}
FormStages == {"group", "knockout"}

ChooseTeams(page) ==
    IF page = "knockout" THEN "Choose home and away teams."
    ELSE "Choose Home and Away teams."
MustDiffer(page) ==
    IF page = "knockout" THEN "Home and away must be different."
    ELSE "Home and Away must be different."
ChooseGroup == "For Group matches, choose a Group."
CreateFailed == "Failed to create match"

\* the checks without the one that home and away differ
formErrorSameTeamAllowed(f) ==
    IF f.homeId = "" \/ f.awayId = "" THEN ChooseTeams(f.page)
    ELSE IF f.page # "knockout" /\ f.stage = "group" /\ f.groupId = "" THEN ChooseGroup
    ELSE ""

\* the early returns of createMatch / createKnockoutMatch: the message set,
\* "" when the form passes
formError(f) ==
    IF f.homeId = "" \/ f.awayId = "" THEN ChooseTeams(f.page)
    ELSE IF f.homeId = f.awayId THEN MustDiffer(f.page)
    ELSE IF f.page # "knockout" /\ f.stage = "group" /\ f.groupId = "" THEN ChooseGroup
    ELSE ""

\* loadAll(): the matches the backend holds
loadedMatches(rows) == {m \in MatchIds : rows[m] # "none"}

InitForm ==
    /\ \E page \in FormPages : createForm = FreshForm(page)
    /\ \E p \in AdminOtherProfiles :
         profiles = [u \in Users |-> IF u = "u1" THEN [role |-> "admin", status |-> "active"] ELSE p]
    /\ matches = [m \in MatchIds |-> "none"]
    /\ preds = {}
    /\ IdlePages
    /\ IdleStandings
    /\ IdleAdmin
    /\ IdleKnockout
    /\ IdleNews
    /\ IdleGuard
    /\ IdleLater

\* the stage select: choosing knockout clears the group
setStage(v) ==
    /\ createForm.page # "knockout"
    /\ createForm' = [createForm EXCEPT !.stage = v,
                                        !.groupId = IF v = "knockout" THEN "" ELSE @]
    /\ UNCHANGED <<svars, dbvars, pvars, avars, kvars, nvars, gvars, evars>>

\* the group select, disabled unless the stage is group
setGroupId(v) ==
    /\ createForm.page # "knockout"
    /\ createForm.stage = "group"
    /\ createForm' = [createForm EXCEPT !.groupId = v]
    /\ UNCHANGED <<svars, dbvars, pvars, avars, kvars, nvars, gvars, evars>>

\* the home and the away select
setHomeId(v) ==
    /\ createForm' = [createForm EXCEPT !.homeId = v]
    /\ UNCHANGED <<svars, dbvars, pvars, avars, kvars, nvars, gvars, evars>>

setAwayId(v) ==
    /\ createForm' = [createForm EXCEPT !.awayId = v]
    /\ UNCHANGED <<svars, dbvars, pvars, avars, kvars, nvars, gvars, evars>>

\* createMatch(): a form that fails a check only gets the message; a form
\* that passes is sent, and when the match was created the team selects are
\* cleared and the list reloaded
createMatch ==
    \/ /\ formError(createForm) # ""
       /\ createForm' = [createForm EXCEPT !.err = formError(createForm)]
       /\ UNCHANGED <<svars, dbvars, pvars, avars, kvars, nvars, gvars, evars>>
    \/ /\ formError(createForm) = ""
       /\ createForm.sent < MaxSent
       /\ \E created \in BOOLEAN :
            IF created /\ \E m \in MatchIds : matches[m] = "none"
            THEN /\ \E m \in MatchIds :
                      /\ matches[m] = "none"
                      /\ matches' = [matches EXCEPT ![m] = "scheduled"]
                 /\ createForm' = [createForm EXCEPT !.err = "", !.homeId = "", !.awayId = "",
                                      !.sent = @ + 1, !.list = loadedMatches(matches')]
            ELSE /\ matches' = matches
                 /\ createForm' = [createForm EXCEPT !.err = CreateFailed, !.sent = @ + 1]
       /\ UNCHANGED <<svars, pvars, avars, kvars, nvars, gvars, profiles, preds, evars>>

NextForm ==
    \/ \E v \in FormStages : setStage(v)
    \/ \E v \in FormGroups : setGroupId(v)
    \/ \E v \in FormTeams : setHomeId(v)
    \/ \E v \in FormTeams : setAwayId(v)
    \/ createMatch

SpecForm == InitForm /\ [][NextForm]_vars

(***************************************************************************)
(* Admin matches page: the Add Goal form of a match card                   *)
(***************************************************************************)

\* the card's match is t1 against t2; the players of the two teams
HomePlayers == {"p1", "p2"}
AwayPlayers == {"p3"}

playersForGoalTeam(c) == IF c.goalTeamId = "t1" THEN HomePlayers ELSE AwayPlayers

\* assist_player_id: assistId || null (<<>> is null)
assistOrNull(a) == IF a = "" THEN <<>> ELSE <<a>>

InitGoalCard ==
    /\ ext = ExtIdle
    /\ IdleStandings
    /\ IdleDb
    /\ IdlePages
    /\ IdleAdmin
    /\ IdleKnockout
    /\ IdleNews
    /\ IdleGuard
    /\ IdleForm

\* Team select: setGoalTeamId, and scorer and assist are cleared
pickGoalTeam(t) ==
    /\ ext' = [ext EXCEPT !.goalCard.goalTeamId = t,
                          !.goalCard.scorerId = "", !.goalCard.assistId = ""]
    /\ UNCHANGED <<svars, dbvars, pvars, avars, kvars, nvars, gvars, fvars>>

\* Scorer select: its options are "" and the players of the goal team
pickScorer(p) ==
    /\ p \in {""} \cup playersForGoalTeam(ext.goalCard)
    /\ ext' = [ext EXCEPT !.goalCard.scorerId = p]
    /\ UNCHANGED <<svars, dbvars, pvars, avars, kvars, nvars, gvars, fvars>>

\* Assist select: its options are "" and the players of the goal team other
\* than the scorer selected at that time
pickAssist(p) ==
    /\ p \in {""} \cup (playersForGoalTeam(ext.goalCard) \ {ext.goalCard.scorerId})
    /\ ext' = [ext EXCEPT !.goalCard.assistId = p]
    /\ UNCHANGED <<svars, dbvars, pvars, avars, kvars, nvars, gvars, fvars>>

\* Add Goal button (disabled without a scorer): onAddGoal(payload), then the
\* scorer and assist selects are cleared
pressAddGoal ==
    /\ ext.goalCard.scorerId # ""
    /\ ext' = [ext EXCEPT
                 !.goalCard.sent = @ \cup
                     {[scoring_team_id |-> ext.goalCard.goalTeamId,
                       scorer_player_id |-> ext.goalCard.scorerId,
                       assist_player_id |-> assistOrNull(ext.goalCard.assistId)]},
                 !.goalCard.scorerId = "", !.goalCard.assistId = ""]
    /\ UNCHANGED <<svars, dbvars, pvars, avars, kvars, nvars, gvars, fvars>>

NextGoalCard ==
    \/ \E t \in {"t1", "t2"} : pickGoalTeam(t)
    \/ \E p \in {""} \cup HomePlayers \cup AwayPlayers : pickScorer(p)
    \/ \E p \in {""} \cup HomePlayers \cup AwayPlayers : pickAssist(p)
    \/ pressAddGoal

SpecGoalCard == InitGoalCard /\ [][NextGoalCard]_vars

(***************************************************************************)
(* Team groups: assignTeamGroup                                            *)
(***************************************************************************)

GroupingPages == {"groups", "teams"}

\* groupId of a call: "" stands for null or empty
GroupChoices == {""} \cup Groups

\* insert that pays no regard to the row the team already has
teamGroupsInsert(rows, teamId, groupId) ==
    rows \cup {[team_id |-> teamId, group_id |-> groupId]}

\* .upsert({ team_id, group_id }): team_id is the key of team_groups
teamGroupsUpsert(rows, teamId, groupId) ==
    {r \in rows : r.team_id # teamId} \cup {[team_id |-> teamId, group_id |-> groupId]}

\* .delete().eq("team_id", teamId)
teamGroupsDelete(rows, teamId) == {r \in rows : r.team_id # teamId}

InitGrouping ==
    /\ ext = ExtIdle
    /\ IdleStandings
    /\ IdleDb
    /\ IdlePages
    /\ IdleAdmin
    /\ IdleKnockout
    /\ IdleNews
    /\ IdleGuard
    /\ IdleForm

\* assignTeam(teamId, groupId) of the groups page (through the endpoint's
\* assignTeamGroup) and of the teams page (straight to the backend): delete
\* without a group, upsert with one; load() after success, the error otherwise
assignTeam(pg, teamId, groupId) ==
    /\ \E backendOk \in BOOLEAN :
         LET g == ext.grouping
             rows2 == IF ~backendOk THEN g.rows
                      ELSE IF groupId = "" THEN teamGroupsDelete(g.rows, teamId)
                      ELSE teamGroupsUpsert(g.rows, teamId, groupId)
         IN ext' = [ext EXCEPT
                      !.grouping.rows = rows2,
                      !.grouping.error[pg] = ~backendOk,
                      !.grouping.shown[pg] = IF backendOk THEN rows2 ELSE @,
                      !.grouping.lastOk[teamId] = IF backendOk THEN groupId ELSE @]
    /\ UNCHANGED <<svars, dbvars, pvars, avars, kvars, nvars, gvars, fvars>>

NextGrouping ==
    \E pg \in GroupingPages, t \in Teams, g \in GroupChoices : assignTeam(pg, t, g)

SpecGrouping == InitGrouping /\ [][NextGrouping]_vars

(***************************************************************************)
(* Team players: addPlayer and removePlayer                                *)
(***************************************************************************)

RosterPlayers == {"p1", "p2", "p3"}
RosterTeams == {"t1", "t2"}

\* loadTeamPlayers(teamId): the players of the rows of that team
teamPlayersOf(rows, teamId) == {r.player_id : r \in {x \in rows : x.team_id = teamId}}

\* players.filter((p) => !ids.has(p.id)): the players not on the selected team
availablePlayers(pg) == RosterPlayers \ pg.teamPlayers

\* .from("team_players").insert({ team_id, player_id })
teamPlayersInsert(rows, teamId, playerId) ==
    rows \cup {[team_id |-> teamId, player_id |-> playerId]}

InitRoster ==
    /\ ext = ExtIdle
    /\ IdleStandings
    /\ IdleDb
    /\ IdlePages
    /\ IdleAdmin
    /\ IdleKnockout
    /\ IdleNews
    /\ IdleGuard
    /\ IdleForm

\* team select, with the effect on selectedTeam: loadTeamPlayers or []
selectTeam(t) ==
    /\ \E backendOk \in BOOLEAN :
         ext' = [ext EXCEPT
                   !.rosterPage.selectedTeam = t,
                   !.rosterPage.teamPlayers =
                       IF t = "" \/ ~backendOk THEN {}
                       ELSE teamPlayersOf(ext.rosterPage.rows, t),
                   !.rosterPage.error = IF t # "" /\ ~backendOk THEN TRUE ELSE @]
    /\ UNCHANGED <<svars, dbvars, pvars, avars, kvars, nvars, gvars, fvars>>

\* Add button of an available player: addPlayer(playerId)
addPlayer(p) ==
    /\ p \in availablePlayers(ext.rosterPage)
    /\ ext.rosterPage.selectedTeam # ""
    /\ \E backendOk \in BOOLEAN :
         LET pg == ext.rosterPage
             rows2 == IF backendOk THEN teamPlayersInsert(pg.rows, pg.selectedTeam, p)
                      ELSE pg.rows
         IN ext' = [ext EXCEPT
                      !.rosterPage.rows = rows2,
                      !.rosterPage.error = ~backendOk,
                      !.rosterPage.teamPlayers =
                          IF backendOk THEN teamPlayersOf(rows2, pg.selectedTeam) ELSE @]
    /\ UNCHANGED <<svars, dbvars, pvars, avars, kvars, nvars, gvars, fvars>>

\* Remove button of a player of the team: removePlayer(playerId)
removePlayer(p) ==
    /\ p \in ext.rosterPage.teamPlayers
    /\ ext.rosterPage.selectedTeam # ""
    /\ \E backendOk \in BOOLEAN :
         LET pg == ext.rosterPage
             rows2 == IF backendOk
                      THEN pg.rows \ {[team_id |-> pg.selectedTeam, player_id |-> p]}
                      ELSE pg.rows
         IN ext' = [ext EXCEPT
                      !.rosterPage.rows = rows2,
                      !.rosterPage.error = ~backendOk,
                      !.rosterPage.teamPlayers =
                          IF backendOk THEN teamPlayersOf(rows2, pg.selectedTeam) ELSE @]
    /\ UNCHANGED <<svars, dbvars, pvars, avars, kvars, nvars, gvars, fvars>>

NextRoster ==
    \/ \E t \in {""} \cup RosterTeams : selectTeam(t)
    \/ \E p \in RosterPlayers : addPlayer(p)
    \/ \E p \in RosterPlayers : removePlayer(p)

SpecRoster == InitRoster /\ [][NextRoster]_vars

(***************************************************************************)
(***************************************************************************)
(* Admin matches pages: mutations, the busy flag and the error banner      *)
(***************************************************************************)
MaxBegun == 3
MaxCalls == 2

\* /admin/matches writes through the action endpoint ("action");
\* /api/admin/matches writes with the backend client of the browser ("direct")
PageKinds == {"action", "direct"}

\* the collections of loadAll, in the order it fetches them
Collections == <<"teams", "groups", "players", "team_players", "matches", "match_goals">>

\* the types the action endpoint knows
ActionTypes ==
    {"setProfileStatus", "createTeam", "deleteTeam", "createGroup", "deleteGroup",
     "assignTeamGroup", "addTeamPlayer", "removeTeamPlayer", "createPlayerWithStats",
     "deletePlayer", "updatePlayerStats", "createMatch", "updateMatch", "deleteMatch",
     "addGoal", "deleteGoal"}

NoMatchingAction == "No matching admin action found for this operation."

\* message of a backend write: none, or the backend's error string
WriteErrors == {"", FkViolation, BackendError}

\* fetch of loadAll that fails: 0 for none, else its place in Collections
LoadFailures == {0, 1, 5}

MutationsOf(kind) ==
    IF kind = "action"
    THEN {"createMatch", "updateMatch", "deleteMatch", "addGoal", "deleteGoal"}
    ELSE {"createMatch", "updateScore", "deleteMatch", "addGoal", "deleteGoal"}

\* the names adminActionTry is given for each mutation
ActionNames(op) ==
    IF op = "createMatch" THEN <<"createMatch", "matchesCreate", "adminCreateMatch">>
    ELSE IF op = "updateMatch" THEN <<"updateMatch", "matchesUpdate", "adminUpdateMatch">>
    ELSE IF op = "deleteMatch" THEN <<"deleteMatch", "matchesDelete", "adminDeleteMatch">>
    ELSE IF op = "addGoal" THEN <<"addGoal", "createGoal", "matchGoalsCreate", "adminAddGoal">>
    ELSE <<"deleteGoal", "matchGoalsDelete", "adminDeleteGoal">>

GoalsFallbackNames ==
    <<"deleteGoalsByMatch", "matchGoalsDeleteByMatch", "adminDeleteGoalsByMatch">>

\* adminAction: the message it throws, "" when the response is ok
adminAction(admin, type, writeErr) ==
    IF ~admin THEN NotAdmin
    ELSE IF type \notin ActionTypes THEN UnknownAction
    ELSE writeErr

\* the messages adminActionTry goes on to the next name for
isUnknownAction(msg) == msg = UnknownAction

RECURSIVE tryNames(_, _, _, _)
tryNames(admin, names, writeErr, lastErr) ==
    IF names = <<>>
    THEN IF lastErr = "" THEN NoMatchingAction ELSE lastErr
    ELSE LET msg == adminAction(admin, Head(names), writeErr)
         IN IF msg = "" THEN ""
            ELSE IF isUnknownAction(msg)
                 THEN tryNames(admin, Tail(names), writeErr, msg)
                 ELSE msg

adminActionTry(admin, names, writeErr) == tryNames(admin, names, writeErr, "")

\* what the try block of a mutation of /admin/matches throws, "" when nothing
actionPageError(admin, op, e1, e2, e3) ==
    LET first == adminActionTry(admin, ActionNames(op), e1)
    IN IF op # "deleteMatch" \/ first = "" THEN first
       ELSE LET fallback == adminActionTry(admin, GoalsFallbackNames, e2)
            IN IF fallback # "" THEN fallback
               ELSE adminActionTry(admin, ActionNames(op), e3)

\* /api/admin/matches: the first write that fails ends the mutation
directPageError(op, e1, e2) ==
    IF e1 # "" THEN e1
    ELSE IF op = "deleteMatch" THEN e2
    ELSE ""

\* the first write of the mutation that was refused, "" when none was
refusedWrite(kind, admin, op, e1, e2) ==
    IF kind = "action" THEN adminAction(admin, Head(ActionNames(op)), e1)
    ELSE directPageError(op, e1, e2)

\* backend writes of the mutation that took effect
writesDone(kind, admin, op, e1, e2, goalsGone) ==
    IF kind = "action"
    THEN IF adminAction(admin, op, e1) = "" THEN 1
         ELSE IF admin /\ op = "deleteMatch" /\ goalsGone THEN 1 ELSE 0
    ELSE IF e1 # "" THEN 0
         ELSE IF op = "deleteMatch" /\ e2 = "" THEN 2 ELSE 1

loadError(c) == c \o ": " \o BackendError

\* loadAll: clears the banner, then sets each collection as its fetch
\* answers; the first fetch that fails ends it with the banner set
loadAll(p, version, failAt) ==
    [p EXCEPT !.reloads = @ + 1,
              !.snapshot = [i \in 1..Len(Collections) |->
                              IF failAt = 0 \/ i < failAt THEN version ELSE @[i]],
              !.err = IF failAt = 0 THEN "" ELSE loadError(Collections[failAt]),
              !.lastRefused = ""]

\* catch and the lines after the writes: a failure sets the banner,
\* success reloads
settleReloadAlways(p, msg, refused, version, failAt) ==
    IF msg = "" THEN loadAll(p, version, failAt)
    ELSE [loadAll(p, version, failAt) EXCEPT !.err = msg, !.lastRefused = refused,
                                            !.failed = @ + 1]

settle(p, msg, refused, version, failAt) ==
    IF msg = "" THEN loadAll(p, version, failAt)
    ELSE [p EXCEPT !.err = msg, !.lastRefused = refused, !.failed = @ + 1]

InitMatchesPage ==
    /\ ext \in {[ExtIdle EXCEPT !.matchesPage = FreshMatchesPage(k)] : k \in PageKinds}
    /\ IdleStandings /\ IdleDb /\ IdlePages /\ IdleAdmin
    /\ IdleKnockout /\ IdleNews /\ IdleGuard /\ IdleForm

\* a button of the page is pressed: the handler runs up to its first await
beginMutation(op) ==
    LET p == ext.matchesPage
    IN /\ op \in MutationsOf(p.kind)
       /\ p.begun < MaxBegun
       /\ Len(p.inflight) < MaxCalls
       /\ p.kind = "action" => ~p.busy
       /\ ext' = [ext EXCEPT !.matchesPage =
                     [p EXCEPT !.err = "", !.lastRefused = "",
                               !.busy = (p.kind = "action"),
                               !.begun = @ + 1,
                               !.inflight = Append(@, op)]]
       /\ UNCHANGED <<svars, dbvars, pvars, avars, kvars, nvars, gvars, fvars>>

\* the requests of a mutation in flight are answered and its handler ends
endMutation(i, e1, e2, e3, goalsGone, failAt) ==
    LET p == ext.matchesPage
        op == p.inflight[i]
        msg == IF p.kind = "action" THEN actionPageError(p.admin, op, e1, e2, e3)
               ELSE directPageError(op, e1, e2)
        refused == refusedWrite(p.kind, p.admin, op, e1, e2)
        version == p.version + writesDone(p.kind, p.admin, op, e1, e2, goalsGone)
        rest == SubSeq(p.inflight, 1, i - 1) \o SubSeq(p.inflight, i + 1, Len(p.inflight))
        q == [p EXCEPT !.inflight = rest, !.version = version]
        r == settle(q, msg, refused, version, failAt)
    IN /\ i \in 1..Len(p.inflight)
       /\ ext' = [ext EXCEPT !.matchesPage =
                     [r EXCEPT !.busy = IF p.kind = "action" THEN FALSE ELSE @]]
       /\ UNCHANGED <<svars, dbvars, pvars, avars, kvars, nvars, gvars, fvars>>

\* another admin takes the role or the active status from the page's user
loseAdmin ==
    /\ ext.matchesPage.admin
    /\ ext' = [ext EXCEPT !.matchesPage.admin = FALSE]
    /\ UNCHANGED <<svars, dbvars, pvars, avars, kvars, nvars, gvars, fvars>>

NextMatchesPage ==
    \/ \E op \in MutationsOf("action") \cup MutationsOf("direct") : beginMutation(op)
    \/ \E i \in 1..MaxCalls, e1, e2, e3 \in WriteErrors, goalsGone \in BOOLEAN,
          failAt \in LoadFailures : endMutation(i, e1, e2, e3, goalsGone, failAt)
    \/ loseAdmin

SpecMatchesPage == InitMatchesPage /\ [][NextMatchesPage]_vars

(***************************************************************************)
(* Matches page: change notifications and the debounced reload             *)
(***************************************************************************)
\* milliseconds in one step of the clock
TimeUnit == 125
ReloadDelay == 250 \div TimeUnit
FallbackPeriod == 25000 \div TimeUnit
MaxTimers == 3
MaxNotes == 3
MaxLoads == 2

\* setTimeout hands out an id no live timer has; it is never 0
freshTimerId(p) ==
    CHOOSE id \in 1..MaxTimers : id # p.reloadTimer /\ \A t \in p.pending : t.id # id

clearTimeout(timers, id) == {t \in timers : t.id # id}

\* scheduleReload without the clearTimeout
scheduleReloadNoCancel(p) ==
    LET id == freshTimerId(p)
    IN [p EXCEPT !.pending = @ \cup {[id |-> id, left |-> ReloadDelay]},
                 !.reloadTimer = id,
                 !.unserved = TRUE,
                 !.sinceNote = 0]

\* scheduleReload: unserved and sinceNote record that a reload is owed and
\* the time since this call
scheduleReload(p) ==
    LET id == freshTimerId(p)
        kept == IF p.reloadTimer # 0 THEN clearTimeout(p.pending, p.reloadTimer)
                ELSE p.pending
    IN [p EXCEPT !.pending = kept \cup {[id |-> id, left |-> ReloadDelay]},
                 !.reloadTimer = id,
                 !.unserved = TRUE,
                 !.sinceNote = 0]

InitLive ==
    /\ ext = ExtIdle
    /\ IdleStandings /\ IdleDb /\ IdlePages /\ IdleAdmin
    /\ IdleKnockout /\ IdleNews /\ IdleGuard /\ IdleForm

\* a postgres_changes event of one of the four tables arrives
changeNotification ==
    LET p == ext.livePage
    IN /\ p.mounted
       /\ p.notes < MaxNotes
       /\ Cardinality(p.pending) < MaxTimers - 1
       /\ ext' = [ext EXCEPT !.livePage = [scheduleReload(p) EXCEPT !.notes = @ + 1]]
       /\ UNCHANGED <<svars, dbvars, pvars, avars, kvars, nvars, gvars, fvars>>

\* the 25 s interval comes due
fallbackTick ==
    LET p == ext.livePage
    IN /\ p.mounted
       /\ p.intervalLeft = 0
       /\ Cardinality(p.pending) < MaxTimers - 1
       /\ ext' = [ext EXCEPT !.livePage =
                     [scheduleReload(p) EXCEPT !.intervalLeft = FallbackPeriod]]
       /\ UNCHANGED <<svars, dbvars, pvars, avars, kvars, nvars, gvars, fvars>>

\* a reload timer comes due: its callback calls load()
timerFires ==
    LET p == ext.livePage
    IN \E t \in p.pending :
         /\ t.left = 0
         /\ ext' = [ext EXCEPT !.livePage =
                       [p EXCEPT !.pending = @ \ {t},
                                 !.loads = (@ + 1) % MaxLoads,
                                 !.unserved = FALSE]]
         /\ UNCHANGED <<svars, dbvars, pvars, avars, kvars, nvars, gvars, fvars>>

\* the clock advances when nothing is due
timePasses ==
    LET p == ext.livePage
    IN /\ \A t \in p.pending : t.left > 0
       /\ p.mounted => p.intervalLeft > 0
       /\ ext' = [ext EXCEPT !.livePage =
                     [p EXCEPT !.pending = {[t EXCEPT !.left = @ - 1] : t \in @},
                               !.intervalLeft = IF p.mounted THEN @ - 1 ELSE @,
                               !.sinceNote = IF @ < ReloadDelay THEN @ + 1 ELSE @]]
       /\ UNCHANGED <<svars, dbvars, pvars, avars, kvars, nvars, gvars, fvars>>

\* the effect's cleanup: channel removed, interval and timer cleared
unmount ==
    LET p == ext.livePage
    IN /\ p.mounted
       /\ ext' = [ext EXCEPT !.livePage =
                     [p EXCEPT !.mounted = FALSE,
                               !.pending = IF p.reloadTimer # 0
                                           THEN clearTimeout(@, p.reloadTimer) ELSE @]]
       /\ UNCHANGED <<svars, dbvars, pvars, avars, kvars, nvars, gvars, fvars>>

NextLive ==
    \/ changeNotification
    \/ fallbackTick
    \/ timerFires
    \/ timePasses
    \/ unmount

SpecLive == InitLive /\ [][NextLive]_vars

\* timers and the clock are the browser's: a due callback runs, time goes on
SpecLiveFair ==
    SpecLive /\ WF_vars(timerFires) /\ WF_vars(timePasses) /\ WF_vars(fallbackTick)

(***************************************************************************)
(* Standings page: load and its failures                                   *)
(***************************************************************************)
MaxRefresh == 4

\* the state load() sets, in the order of its fetches
LoadedState == <<"teams", "groups", "teamGroups", "groupMatches", "knockoutMatches">>

FetchFailed == "fetch failed"

\* the page is mounted: the effect calls load(); Refresh calls it again
\* (the button is rendered only when loading is false)
loadStart ==
    LET p == ext.standingsPage
    IN /\ ~p.loading \/ p.loadNo = 0
       /\ p.loadNo < MaxRefresh
       /\ ext' = [ext EXCEPT !.standingsPage =
                     [p EXCEPT !.loading = TRUE, !.err = "", !.loadNo = @ + 1, !.next = 1]]
       /\ UNCHANGED <<svars, dbvars, pvars, avars, kvars, nvars, gvars, fvars>>

\* fail(message)
fail(p, message) == [p EXCEPT !.err = message, !.loading = FALSE, !.next = 0]

\* the fetch the load waits for answers: its rows are set, or fail() ends
\* the load; after the last fetch loading is set to false
fetchAnswers(ok) ==
    LET p == ext.standingsPage
        set == [p EXCEPT !.snapshot[p.next] = p.loadNo]
    IN /\ p.next \in 1..Len(LoadedState)
       /\ ext' = [ext EXCEPT !.standingsPage =
                     IF ~ok THEN fail(p, FetchFailed)
                     ELSE IF p.next < Len(LoadedState) THEN [set EXCEPT !.next = @ + 1]
                     ELSE [set EXCEPT !.next = 0, !.loading = FALSE]]
       /\ UNCHANGED <<svars, dbvars, pvars, avars, kvars, nvars, gvars, fvars>>

InitStandingsLoad ==
    /\ ext = ExtIdle
    /\ IdleStandings /\ IdleDb /\ IdlePages /\ IdleAdmin
    /\ IdleKnockout /\ IdleNews /\ IdleGuard /\ IdleForm

NextStandingsLoad ==
    \/ loadStart
    \/ \E ok \in BOOLEAN : fetchAnswers(ok)

SpecStandingsLoad == InitStandingsLoad /\ [][NextStandingsLoad]_vars

(***************************************************************************)
(* Player approval: the approve-players page and the waiting page          *)
(***************************************************************************)
Applicants == {"u1", "u2"}

CheckingMsg == "Checking approval status..."
ErrorReadingMsg == "Error reading your status: "
RejectedMsg == "Your registration was rejected. Contact the admin."
PendingMsg == "Still pending approval... Admin will approve you soon."

\* rows of profiles with role player and status pending
pendingPlayers(profs) == {u \in Applicants : profs[u] = "pending"}

\* load() of the approve-players page
approveLoad(a, ok) ==
    [a EXCEPT !.rows = IF ok THEN pendingPlayers(a.profiles) ELSE {},
              !.err = IF ok THEN "" ELSE BackendError]

\* approve / reject: setProfileStatus through the endpoint, then load()
setStatusAndLoad(a, id, status, backendOk, loadOk) ==
    IF backendOk
    THEN approveLoad([a EXCEPT !.profiles[id] = status], loadOk)
    ELSE [a EXCEPT !.err = BackendError]

InitApproval ==
    /\ ext = ExtIdle
    /\ IdleStandings /\ IdleDb /\ IdlePages /\ IdleAdmin
    /\ IdleKnockout /\ IdleNews /\ IdleGuard /\ IdleForm

approvePageLoad(ok) ==
    /\ ext' = [ext EXCEPT !.approval = approveLoad(@, ok)]
    /\ UNCHANGED <<svars, dbvars, pvars, avars, kvars, nvars, gvars, fvars>>

approve(id, backendOk, loadOk) ==
    /\ id \in ext.approval.rows
    /\ ext' = [ext EXCEPT !.approval = setStatusAndLoad(@, id, "active", backendOk, loadOk)]
    /\ UNCHANGED <<svars, dbvars, pvars, avars, kvars, nvars, gvars, fvars>>

reject(id, backendOk, loadOk) ==
    /\ id \in ext.approval.rows
    /\ ext' = [ext EXCEPT !.approval = setStatusAndLoad(@, id, "disabled", backendOk, loadOk)]
    /\ UNCHANGED <<svars, dbvars, pvars, avars, kvars, nvars, gvars, fvars>>

\* check() of the waiting page, at mount and every 2 s while it is mounted
check(u, hasUser, readOk) ==
    LET a == ext.approval
    IN /\ a.route[u] = "/waiting"
       /\ ext' = [ext EXCEPT !.approval =
                     IF ~hasUser THEN [a EXCEPT !.route[u] = "/register"]
                     ELSE IF ~readOk THEN [a EXCEPT !.msg[u] = ErrorReadingMsg]
                     ELSE IF a.profiles[u] = "active" THEN [a EXCEPT !.route[u] = "/app"]
                     ELSE IF a.profiles[u] = "rejected" THEN [a EXCEPT !.msg[u] = RejectedMsg]
                     ELSE [a EXCEPT !.msg[u] = PendingMsg]]
       /\ UNCHANGED <<svars, dbvars, pvars, avars, kvars, nvars, gvars, fvars>>

NextApproval ==
    \/ \E ok \in BOOLEAN : approvePageLoad(ok)
    \/ \E id \in Applicants, backendOk, loadOk \in BOOLEAN : approve(id, backendOk, loadOk)
    \/ \E id \in Applicants, backendOk, loadOk \in BOOLEAN : reject(id, backendOk, loadOk)
    \/ \E u \in Applicants, hasUser, readOk \in BOOLEAN : check(u, hasUser, readOk)

SpecApproval == InitApproval /\ [][NextApproval]_vars

\* the interval keeps calling check, and its read succeeds again and again
SpecApprovalFair ==
    SpecApproval /\ \A u \in Applicants : WF_vars(check(u, TRUE, TRUE))

(* Standings engine: claims                                                *)
(***************************************************************************)
\* what the claims count: finished group matches of g with both scores set
Counted(g) ==
    {i \in 1..Len(sMatches) :
        /\ sMatches[i].stage = "group"
        /\ sMatches[i].group_id = g
        /\ sMatches[i].status = "finished"
        /\ sMatches[i].home_score # NoScore
        /\ sMatches[i].away_score # NoScore}
Decisive(g) == {i \in Counted(g) : sMatches[i].home_score # sMatches[i].away_score}
Drawn(g) == {i \in Counted(g) : sMatches[i].home_score = sMatches[i].away_score}
CountedFor(g, t) ==
    {i \in Counted(g) : sMatches[i].home_team_id = t \/ sMatches[i].away_team_id = t}

RECURSIVE SumPts(_, _)
SumPts(rows, i) == IF i = 0 THEN 0 ELSE rows[i].pts + SumPts(rows, i - 1)

AssignedTo(g) == {sTeamGroups[i].team_id : i \in {j \in 1..Len(sTeamGroups) : sTeamGroups[j].group_id = g}}

\* C8: in both variants of the standings page, the sum of pts over the rows
\* of a group's table is 3 x (finished group matches of the group with both
\* scores set and unequal) + 2 x (such matches with equal scores); scheduled
\* matches, null scores, knockout matches and other groups add nothing.
C8_PointsSum ==
    \A g \in Groups :
        /\ SumPts(standings[g], Len(standings[g]))
             = 3 * Cardinality(Decisive(g)) + 2 * Cardinality(Drawn(g))
        /\ SumPts(standingsM[g], Len(standingsM[g]))
             = 3 * Cardinality(Decisive(g)) + 2 * Cardinality(Drawn(g))

\* a group with one decisive and one drawn match, next to rows that must not
\* count (another stage, another group, a scheduled match or a null score)
C8_Witness ==
    \E g \in Groups :
        /\ Cardinality(Decisive(g)) = 1
        /\ Cardinality(Drawn(g)) = 1
        /\ SumPts(standings[g], Len(standings[g])) = 5
        /\ SumPts(standingsM[g], Len(standingsM[g])) = 5

C8_WitnessIgnored ==
    \E g \in Groups :
        /\ Cardinality(Decisive(g)) = 1
        /\ Len(sMatches) = 2
        /\ \E i \in 1..Len(sMatches) : i \notin Counted(g)
        /\ SumPts(standings[g], Len(standings[g])) = 3

RowOk(g, r) ==
    /\ r.gd = r.gf - r.ga
    /\ r.pts = 3 * r.won + r.draw
    /\ r.played = r.won + r.draw + r.lost
    /\ r.played = Cardinality(CountedFor(g, r.team_id))

\* C9: in every computed group table every row has gd = gf - ga,
\* pts = 3*won + draw, played = won + draw + lost, and played is the number
\* of finished group matches of the group with both scores set in which the
\* team is home or away.
C9_RowArithmetic ==
    \A g \in Groups :
        /\ \A i \in 1..Len(standings[g]) : RowOk(g, standings[g][i])
        /\ \A i \in 1..Len(standingsM[g]) : RowOk(g, standingsM[g][i])

\* a team counted twice in one group, once as home and once as away, with a
\* non-zero goal difference
C9_Witness ==
    \E g \in Groups : \E i \in 1..Len(standings[g]) :
        LET r == standings[g][i]
        IN /\ r.played = 2
           /\ r.gd # 0
           /\ \E a, b \in Counted(g) :
                /\ sMatches[a].home_team_id = r.team_id
                /\ sMatches[b].away_team_id = r.team_id

AllZero(r) ==
    /\ r.played = 0 /\ r.won = 0 /\ r.draw = 0 /\ r.lost = 0
    /\ r.gf = 0 /\ r.ga = 0 /\ r.gd = 0 /\ r.pts = 0

HasFinishedIn(g, t) ==
    \E i \in 1..Len(sMatches) :
        /\ sMatches[i].stage = "group"
        /\ sMatches[i].group_id = g
        /\ sMatches[i].status = "finished"
        /\ (sMatches[i].home_team_id = t \/ sMatches[i].away_team_id = t)

AssignedShown(tables) ==
    \A g \in Groups : \A t \in AssignedTo(g) :
        /\ \E i \in 1..Len(tables[g]) : tables[g][i].team_id = t
        /\ ~HasFinishedIn(g, t) =>
             \A i \in 1..Len(tables[g]) : tables[g][i].team_id = t => AllZero(tables[g][i])

\* C10: every team assigned to a group appears in that group's computed
\* table, and an assigned team with no finished match in the group has
\* played, won, draw, lost, gf, ga, gd and pts all zero -- in both variants
\* of the standings page.
C10_AssignedTeamsShown == AssignedShown(standings) /\ AssignedShown(standingsM)

\* the same statement for the variant of src/app/app/standings/page.tsx alone
C10_AssignedShownPage == AssignedShown(standings)

TeamsOf(rows) == {rows[i].team_id : i \in 1..Len(rows)}

\* C11: for every group, the teams that have a row in the group's computed
\* table are exactly the teams the team-group assignments put in that group,
\* whatever matches exist.
C11_TableIsAssigned ==
    \A g \in Groups : TeamsOf(standings[g]) = AssignedTo(g)

\* the half of C11 that the page does keep: an assigned team is never missing
C11_AssignedNeverMissing ==
    \A g \in Groups : AssignedTo(g) \subseteq TeamsOf(standings[g])

SameStats(r, s) == r.pts = s.pts /\ r.gd = s.gd /\ r.gf = s.gf

\* r may be listed before s
MayPrecede(r, s) ==
    \/ r.pts > s.pts
    \/ r.pts = s.pts /\ r.gd > s.gd
    \/ r.pts = s.pts /\ r.gd = s.gd /\ r.gf > s.gf
    \/ SameStats(r, s) /\ NameRank(sTeams[r.team_id]) <= NameRank(sTeams[s.team_id])

InOrder(rows) ==
    \A i, j \in 1..Len(rows) : i < j => MayPrecede(rows[i], rows[j])

\* C12: in every group's computed table a row listed before another has more
\* pts, or equal pts and a larger gd, or equal pts and gd and a larger gf, or
\* all three equal and a team name that is not alphabetically after the
\* other's -- in both variants of the standings page.
C12_TableSorted ==
    \A g \in Groups : InOrder(standings[g]) /\ InOrder(standingsM[g])

\* a table of three rows in which a tie on pts, gd and gf is broken by name
\* against the order the rows were created in, below a row with more pts
C12_Witness ==
    \E g \in Groups :
        LET rows == standings[g]
        IN /\ Len(rows) = 3
           /\ rows[1].pts > rows[2].pts
           /\ SameStats(rows[2], rows[3])
           /\ sTeams[rows[2].team_id] # sTeams[rows[3].team_id]
           /\ rows[2].team_id = "t1"
           /\ ~(\E i \in 1..Len(sTeamGroups) : sTeamGroups[i].team_id = "t1")

Reverse(s) == [i \in 1..Len(s) |-> s[Len(s) + 1 - i]]

NoEqualRows(rows) ==
    \A i, j \in 1..Len(rows) : i # j => rowCompare(rows[i], rows[j]) # 0

SortIdempotent(rows) == sortRows(rows, Len(rows)) = rows

\* the tables computed from the same rows supplied in the opposite order
standingsReversed ==
    standingsByGroup(Reverse(sTeamGroups), Reverse(selectStage(sMatches, "group")))

\* C13: the standings order is a strict total order: two distinct rows of a
\* group never compare as equal, the order of a group's table is the same
\* when the assignments and matches are supplied in another order, and
\* sorting a computed table again leaves it as it is.
C13_StrictTotalOrder ==
    \A g \in Groups :
        /\ NoEqualRows(standings[g])
        /\ standingsReversed[g] = standings[g]
        /\ SortIdempotent(standings[g])

\* the part of C13 that holds: sorting a computed table again changes nothing
C13_SortIdempotent ==
    \A g \in Groups : SortIdempotent(standings[g]) /\ SortIdempotent(standingsM[g])

\* the order does not depend on the supply order while team names differ
C13_OrderFixedForDistinctNames ==
    (\A t, u \in Teams : t # u => sTeams[t] # sTeams[u]) =>
        \A g \in Groups : NoEqualRows(standings[g]) /\ standingsReversed[g] = standings[g]

(***************************************************************************)
(* Standings page, knockout rounds: claims                                 *)
(***************************************************************************)
\* where a match is listed: bucket and position
Places(m) ==
    {p \in (1..Len(knockout)) \X (1..MaxKnockout) :
        /\ p[2] <= Len(knockout[p[1]].arr)
        /\ knockout[p[1]].arr[p[2]] = m}

BucketRows(b) == {knockout[b].arr[k] : k \in 1..Len(knockout[b].arr)}

\* C14: knockout grouping is a partition of the loaded knockout matches:
\* every match is listed in exactly one bucket and once, nothing else is
\* listed, no bucket is empty and no label heads two buckets -- also for
\* null, empty and whitespace-only round labels.
C14_KnockoutPartition ==
    /\ \A i \in 1..Len(kMatches) : Cardinality(Places(kMatches[i])) = 1
    /\ \A b \in 1..Len(knockout) :
         /\ Len(knockout[b].arr) > 0
         /\ BucketRows(b) \subseteq {kMatches[i] : i \in 1..Len(kMatches)}
         /\ \A c \in 1..Len(knockout) : knockout[c].label = knockout[b].label => c = b

\* a null, a whitespace-only and a padded label: two buckets, Knockout with
\* two matches and Final with one
C14_Witness ==
    /\ Len(kMatches) = 3
    /\ {kMatches[i].knockout_round : i \in 1..3} = {<<>>, <<Str_Blank>>, <<Str_FinalPadded>>}
    /\ Len(knockout) = 2
    /\ knockout[1].label = Str_Final /\ Len(knockout[1].arr) = 1
    /\ knockout[2].label = Str_Knockout /\ Len(knockout[2].arr) = 2

\* rank of the labels of the model when every key of the claim, the short
\* codes included, is looked for as a substring; 0: none of the keys
SubstringRank(label) ==
    CASE label = Str_RoundOf16 -> 1
      [] label \in {Str_Quarterfinal, Str_QF, Str_QF1} -> 2
      [] label = Str_Semifinal -> 3
      [] label = Str_Bronze -> 4
      [] label \in {Str_Final, Str_final, Str_F, Str_Playoff} -> 5
      [] label = Str_Knockout -> 99
      [] OTHER -> 0

\* rank when the short codes qf, sf and f count only as the whole label
WholeCodeRank(label) ==
    CASE label = Str_RoundOf16 -> 1
      [] label \in {Str_Quarterfinal, Str_QF} -> 2
      [] label = Str_Semifinal -> 3
      [] label = Str_Bronze -> 4
      [] label \in {Str_Final, Str_final, Str_F} -> 5
      [] label = Str_Knockout -> 99
      [] OTHER -> 0

KoRow(i, label) == [id |-> i, knockout_round |-> <<label>>, start_time |-> <<>>]

\* the labels Final, Round of 16, Quarterfinal, Knockout, Semifinal
ExampleListing ==
    LET out == knockoutGroups(<<KoRow(1, Str_Final), KoRow(2, Str_RoundOf16),
                                KoRow(3, Str_Quarterfinal), KoRow(4, Str_Knockout),
                                KoRow(5, Str_Semifinal)>>)
    IN [i \in 1..Len(out) |-> out[i].label]

ExampleExpected ==
    <<Str_RoundOf16, Str_Quarterfinal, Str_Semifinal, Str_Final, Str_Knockout>>

\* the buckets with a rank are listed by rank, alphabetically within a rank
ListedByRank(Rank(_)) ==
    \A b, c \in 1..Len(knockout) :
        (b < c /\ Rank(knockout[b].label) # 0 /\ Rank(knockout[c].label) # 0) =>
            \/ Rank(knockout[b].label) < Rank(knockout[c].label)
            \/ /\ Rank(knockout[b].label) = Rank(knockout[c].label)
               /\ strCompare(knockout[b].label, knockout[c].label) < 0

\* C15, as stated: the buckets are listed by the precedence round of 16 (1),
\* quarter / qf (2), semi / sf (3), third / 3rd / bronze (4), final / f (5),
\* Knockout (99), every key recognised case-insensitively as a substring of
\* the label, alphabetically within a rank; the five example labels come out
\* as Round of 16, Quarterfinal, Semifinal, Final, Knockout.
C15_RoundPrecedenceBySubstring ==
    ListedByRank(SubstringRank) /\ ExampleListing = ExampleExpected

\* C15, amended: the same precedence with the words recognised as
\* substrings and the short codes qf, sf and f only as the whole label.
C15_RoundPrecedence ==
    ListedByRank(WholeCodeRank) /\ ExampleListing = ExampleExpected

\* the code QF before two labels of rank 5 in alphabetical order, loaded in
\* another order
C15_Witness ==
    /\ Len(knockout) = 3
    /\ knockout[1].label = Str_QF
    /\ knockout[2].label = Str_final
    /\ knockout[3].label = Str_Final
    /\ kMatches[1].knockout_round = <<Str_Final>>

\* a label with none of the recognised words or codes, other than Knockout
Custom(label) == WholeCodeRank(label) = 0

CustomKept ==
    \A i \in 1..Len(kMatches) :
        Custom(normRoundLabel(kMatches[i].knockout_round)) =>
            \E b \in 1..Len(knockout) :
                /\ knockout[b].label = normRoundLabel(kMatches[i].knockout_round)
                /\ kMatches[i] \in BucketRows(b)

\* C16: a bucket with a custom or unrecognised label is never lost and is
\* listed in the middle: after the buckets of the early rounds (round of 16,
\* quarterfinal) and before the buckets of the recognised late rounds (Final).
C16_CustomInMiddle ==
    /\ CustomKept
    /\ \A b, c \in 1..Len(knockout) :
         Custom(knockout[b].label) =>
            /\ WholeCodeRank(knockout[c].label) \in {1, 2} => c < b
            /\ WholeCodeRank(knockout[c].label) = 5 => b < c

\* what the page does keep: the custom bucket is there, after every
\* recognised round and before Knockout
C16_CustomAfterRecognised ==
    /\ CustomKept
    /\ \A b, c \in 1..Len(knockout) :
         Custom(knockout[b].label) =>
            /\ WholeCodeRank(knockout[c].label) \in 1..5 => c < b
            /\ WholeCodeRank(knockout[c].label) = 99 => b < c

\* C17: inside every bucket the matches are in ascending start_time order,
\* and a match with no start_time comes after every match that has one.
C17_TimeOrderNullsLast ==
    \A b \in 1..Len(knockout) :
        \A i, j \in 1..Len(knockout[b].arr) :
            i < j =>
                /\ knockout[b].arr[i].start_time = <<>> =>
                       knockout[b].arr[j].start_time = <<>>
                /\ (knockout[b].arr[i].start_time # <<>>
                    /\ knockout[b].arr[j].start_time # <<>>) =>
                       knockout[b].arr[i].start_time[1] <=
                           knockout[b].arr[j].start_time[1]

\* what the page does keep: ascending order of the time value it compares,
\* where a missing start_time counts as time zero
C17_TimeOrderNullAsZero ==
    \A b \in 1..Len(knockout) :
        \A i, j \in 1..Len(knockout[b].arr) :
            i < j => startMillis(knockout[b].arr[i]) <=
                         startMillis(knockout[b].arr[j])

(***************************************************************************)
(* News page: claims                                                       *)
(***************************************************************************)

nameOf1(r) == r.display_name
nameOf2(r) == r.name

\* a ranks strictly before b among the scorers / the assisters
ScorerBefore(a, b, nameOf(_)) ==
    \/ a.goals > b.goals
    \/ a.goals = b.goals /\ a.assists > b.assists
    \/ a.goals = b.goals /\ a.assists = b.assists
       /\ strCompare(nameOf(a), nameOf(b)) < 0

AssisterBefore(a, b, nameOf(_)) ==
    \/ a.assists > b.assists
    \/ a.assists = b.assists /\ a.goals > b.goals
    \/ a.assists = b.assists /\ a.goals = b.goals
       /\ strCompare(nameOf(a), nameOf(b)) < 0

Ids(s) == {s[i].id : i \in 1..Len(s)}

\* list holds the first TopLimit of the rows of ps that Keep lets through,
\* in the order Before
FirstOf(list, ps, Keep(_), Before(_, _)) ==
    /\ Len(list) = (IF Cardinality({k \in 1..Len(ps) : Keep(ps[k])}) < TopLimit
                    THEN Cardinality({k \in 1..Len(ps) : Keep(ps[k])})
                    ELSE TopLimit)
    /\ \A i \in 1..Len(list) : \E k \in 1..Len(ps) : Keep(ps[k]) /\ ps[k] = list[i]
    /\ \A i, j \in 1..Len(list) : i < j =>
           list[i].id # list[j].id /\ ~Before(list[j], list[i])
    /\ \A k \in 1..Len(ps) : (Keep(ps[k]) /\ ps[k].id \notin Ids(list)) =>
           \A i \in 1..Len(list) : ~Before(ps[k], list[i])

anyRow(r) == TRUE

ScorerBefore1(a, b) == ScorerBefore(a, b, nameOf1)
AssisterBefore1(a, b) == AssisterBefore(a, b, nameOf1)
ScorerBefore2(a, b) == ScorerBefore(a, b, nameOf2)
AssisterBefore2(a, b) == AssisterBefore(a, b, nameOf2)

SameTally(a, b) == a.goals = b.goals /\ a.assists = b.assists

NonAdminRoutes == {"/register", "/app"}

SessionIsActiveAdmin ==
    /\ authUser # <<>>
    /\ profiles[authUser[1]].role = "admin"
    /\ profiles[authUser[1]].status = "active"

\* requireAdmin has just returned on the page
Returned(pg, pgNext) == pg.ok = "pending" /\ pgNext.ok # "pending"

\* the page shows its data or its forms
Open(pg) == pg.loaded \/ ~pg.loading

GateStep(pg, pgNext) ==
    Returned(pg, pgNext) =>
        /\ pgNext.ok = "true" => SessionIsActiveAdmin
        /\ pgNext.ok # "true" => pgNext.path \in NonAdminRoutes
        /\ Open(pgNext) => pgNext.ok = "true"

\* C19: requireAdmin returns true only if the session's profile has role
\* admin and status active; in every other case (no session, another role,
\* another status, profile that cannot be read) it returns a value the page
\* takes as false and the router is sent to a non-admin route; the page loads
\* its data and shows its forms only after requireAdmin returned true.
C19_RequireAdminGate ==
    [][GateStep(adminMatchesPage, adminMatchesPage')
       /\ GateStep(adminPlayersPage, adminPlayersPage')]_vars

\* what both pages keep: true only for an active admin, and nothing loaded or
\* shown before that
TrueOnlyStep(pg, pgNext) ==
    Returned(pg, pgNext) =>
        /\ pgNext.ok = "true" => SessionIsActiveAdmin
        /\ Open(pgNext) => pgNext.ok = "true"

C19_TrueOnlyForActiveAdmin ==
    [][TrueOnlyStep(adminMatchesPage, adminMatchesPage')
       /\ TrueOnlyStep(adminPlayersPage, adminPlayersPage')]_vars

\* the players page does redirect whenever requireAdmin did not return true
C19_PlayersPageRedirects ==
    adminPlayersPage.ok \in {"false", "undefined"} =>
        adminPlayersPage.path \in NonAdminRoutes

(***************************************************************************)
(* Create-match form: claims                                               *)
(***************************************************************************)

\* home or away not selected, home and away the same team, or group stage
\* with no group selected
FormRejected(f) ==
    \/ f.homeId = "" \/ f.awayId = ""
    \/ f.homeId = f.awayId
    \/ f.stage = "group" /\ f.groupId = ""

Selections(f) == <<f.stage, f.groupId, f.homeId, f.awayId>>

\* C20: when the home or the away team is not selected, when home and away
\* are the same team, or when the stage is group and no group is selected,
\* createMatch sends no request and creates no match: it only sets the error
\* message, and the match list and the form selections stay as they were.
C20_RejectedFormSendsNothing ==
    [][FormRejected(createForm) =>
          /\ matches' = matches
          /\ createForm'.sent = createForm.sent
          /\ createForm'.list = createForm.list
          /\ createForm'.err # createForm.err =>
                /\ createForm'.err \in {ChooseTeams(createForm.page),
                                        MustDiffer(createForm.page), ChooseGroup}
                /\ Selections(createForm') = Selections(createForm)]_vars

\* after a match was created and listed, a form with the same team on both
\* sides was turned down with the message
C20_Witness ==
    /\ createForm.homeId # ""
    /\ createForm.homeId = createForm.awayId
    /\ createForm.err = MustDiffer(createForm.page)
    /\ createForm.sent = 1
    /\ createForm.list # {}

(***************************************************************************)
(* Add Goal form: claims                                                   *)
(***************************************************************************)

\* C21: every goal event submitted through the Add Goal form has a non-empty
\* scorer and an assist that is null or a player other than the scorer,
\* whatever the order in which team, scorer and assist were picked.
C21_SubmittedGoalValid ==
    \A g \in ext.goalCard.sent :
        /\ g.scorer_player_id # ""
        /\ g.assist_player_id = <<>> \/ g.assist_player_id[1] # g.scorer_player_id

\* what the form does keep: a scorer is always there, and scorer and assist
\* are players of the scoring team
C21_ScorerPresentSameTeam ==
    \A g \in ext.goalCard.sent :
        LET squad == IF g.scoring_team_id = "t1" THEN HomePlayers ELSE AwayPlayers
        IN /\ g.scorer_player_id \in squad
           /\ g.assist_player_id = <<>> \/ g.assist_player_id[1] \in squad

(***************************************************************************)
(* Team groups: claims                                                     *)
(***************************************************************************)

AssignmentsOf(t) == {r \in ext.grouping.rows : r.team_id = t}

\* C22: after any sequence of assignTeamGroup calls each team has at most one
\* group assignment, and it is the group of the team's last successful call:
\* a call with a group replaces the assignment, a call without one removes
\* it, and the assignments of the other teams are untouched.
C22_OneGroupPerTeam ==
    \A t \in Teams :
        /\ Cardinality(AssignmentsOf(t)) <= 1
        /\ AssignmentsOf(t) =
              IF ext.grouping.lastOk[t] = "" THEN {}
              ELSE {[team_id |-> t, group_id |-> ext.grouping.lastOk[t]]}

\* t1 was moved from g1 to g2 and t2 was assigned and removed again, while a
\* failed call left its error on a page
C22_Witness ==
    /\ [team_id |-> "t1", group_id |-> "g2"] \in ext.grouping.rows
    /\ [team_id |-> "t1", group_id |-> "g1"] \in ext.grouping.shown["teams"]
    /\ AssignmentsOf("t2") = {}
    /\ [team_id |-> "t2", group_id |-> "g1"] \in ext.grouping.shown["teams"]
    /\ ext.grouping.error["groups"]

(***************************************************************************)
(* Team players: claims                                                    *)
(***************************************************************************)

TeamsOfPlayer(p) == {r.team_id : r \in {x \in ext.rosterPage.rows : x.player_id = p}}

\* C23: after any sequence of add-player-to-team and remove-player-from-team
\* operations every player is on at most one team: adding a player of team A
\* to team B never leaves the player on both.
C23_OneTeamPerPlayer ==
    \A p \in RosterPlayers : Cardinality(TeamsOfPlayer(p)) <= 1

\* what the page does keep: the players offered for adding are not on the
\* selected team as the page last loaded it
C23_NoRowTwice ==
    \A p \in ext.rosterPage.teamPlayers :
        /\ ext.rosterPage.selectedTeam # ""
        /\ [team_id |-> ext.rosterPage.selectedTeam, player_id |-> p] \in ext.rosterPage.rows

(***************************************************************************)
(***************************************************************************)
(* Admin matches pages: claims                                             *)
(***************************************************************************)
\* C24: when a write of a mutation was refused, the banner shows the
\* message of that refused write.
C24_BannerShowsFailedWrite ==
    ext.matchesPage.lastRefused # "" =>
        ext.matchesPage.err = ext.matchesPage.lastRefused

\* the direct page always shows the refused write's own message
C24_DirectPageVerbatim ==
    (ext.matchesPage.kind = "direct" /\ ext.matchesPage.lastRefused # "") =>
        ext.matchesPage.err = ext.matchesPage.lastRefused

C28_OneMutationInFlight ==
    /\ Len(ext.matchesPage.inflight) <= 1
    /\ ext.matchesPage.busy <=> ext.matchesPage.inflight # <<>>

\* /admin/matches, whose buttons are disabled while busy, is serialized
C28_ActionPageSerialized ==
    ext.matchesPage.kind = "action" =>
        /\ Len(ext.matchesPage.inflight) <= 1
        /\ ext.matchesPage.busy <=> ext.matchesPage.inflight # <<>>

(***************************************************************************)
(* Matches page, debounced reload: claims                                  *)
(***************************************************************************)
OneTimerPending ==
    /\ Cardinality(ext.livePage.pending) <= 1
    /\ ext.livePage.pending # {} => ext.livePage.unserved

ReloadStep == ext'.livePage.loads # ext.livePage.loads

\* a reload starts only a full delay after the last scheduleReload, only
\* when one is owed, only while mounted, and leaves no timer behind
DebouncedStep ==
    ReloadStep =>
        /\ ext.livePage.sinceNote >= ReloadDelay
        /\ ext.livePage.unserved
        /\ ext.livePage.mounted
        /\ ext'.livePage.pending = {}

\* C27: at most one reload timer is pending; a burst of notifications, each
\* within the delay of the one before, is followed by exactly one reload,
\* which starts only after the last of them; after unmount no scheduled
\* reload fires.
C27_DebouncedReload ==
    /\ []OneTimerPending
    /\ [][DebouncedStep]_vars
    /\ (ext.livePage.mounted /\ ext.livePage.unserved)
          ~> (~ext.livePage.unserved \/ ~ext.livePage.mounted)

\* a second notification has arrived while the first one's timer was pending
C27_Witness ==
    /\ ext.livePage.notes >= 2
    /\ ext.livePage.sinceNote = 0
    /\ ext.livePage.loads = 0
    /\ Cardinality(ext.livePage.pending) = 1

(***************************************************************************)
(* Standings page, failed load: claims                                     *)
(***************************************************************************)
\* some of the state comes from the load numbered n, the rest from an
\* earlier load
MixedSnapshot(p, n) ==
    \E i, j \in 1..Len(LoadedState) :
        p.snapshot[i] = n /\ p.snapshot[j] \in 1..(n - 1)

\* C26: when a fetch of load fails the error is reported and no table is
\* shown from a snapshot mixing the failed load with an earlier one.
C26_NoTableFromFailedLoad ==
    (~ext.standingsPage.loading /\ ext.standingsPage.loadNo > 0
       /\ ext.standingsPage.err # "")
        => ~MixedSnapshot(ext.standingsPage, ext.standingsPage.loadNo)

\* a load ends with the error set exactly when one of its fetches failed;
\* a load that ends without error has set every state
C26_ErrorReported ==
    (~ext.standingsPage.loading /\ ext.standingsPage.loadNo > 0) =>
        (ext.standingsPage.err = "" <=>
            \A i \in 1..Len(LoadedState) :
                ext.standingsPage.snapshot[i] = ext.standingsPage.loadNo)

(***************************************************************************)
(* Player approval: claims                                                 *)
(***************************************************************************)
\* the admin's reject of u went through and u is still on the waiting page
RejectedWaiting(u) ==
    /\ ext.approval.profiles[u] = "disabled"
    /\ ext.approval.route[u] = "/waiting"

\* C30: a pending player the admin has rejected is eventually shown the
\* rejection message on the waiting page.
C30_RejectedIsTold ==
    \A u \in Applicants :
        RejectedWaiting(u) ~>
            (ext.approval.msg[u] = RejectedMsg \/ ext.approval.route[u] # "/waiting")

\* what the waiting page does show: never the rejection message, and after
\* every successful read of a rejected player's status the pending message
C30_RejectedSeesPending ==
    \A u \in Applicants :
        /\ ext.approval.msg[u] # RejectedMsg
        /\ ext.approval.profiles[u] = "disabled" =>
               ext.approval.msg[u] \in {CheckingMsg, PendingMsg, ErrorReadingMsg}

(* Predictions: claims                                                     *)
(***************************************************************************)
PredsOf(rows, u) == {r \in rows : r.user_id = u}
RequestsOf(reqs, u) == {q \in reqs : q.user_id = u}
DisabledFan(u) == profiles[u].role = "fan" /\ profiles[u].status = "disabled"

\* C2: once a fan's profile status is disabled, no operation by that fan is
\* accepted until the status is active again: the fan sends and gets through
\* no prediction, and a check of the /app layout does not leave the fan on
\* the /app pages.
C2_DisabledFanBlocked ==
    [][\A u \in Users :
         DisabledFan(u) =>
            /\ PredsOf(preds', u) = PredsOf(preds, u)
            /\ RequestsOf(inflight', u) \subseteq RequestsOf(inflight, u)
            /\ (appLayout'[u] # appLayout[u] => appLayout'[u].path # "/app")]_vars

UniquePreds ==
    \A r1, r2 \in preds :
        (r1.match_id = r2.match_id /\ r1.user_id = r2.user_id) => r1 = r2

\* C3: at most one prediction row exists per fan and match after any
\* sequence of submissions; a submission for a key that already has a row is
\* rejected with an error, and a stored row is never changed or removed.
C3_OnePredictionPerFanMatch ==
    [][/\ UniquePreds'
       /\ preds \subseteq preds'
       /\ \A q \in inflight \ inflight' :
            ~PredKeyFree(preds, q.match_id, q.user_id) =>
                /\ preds' = preds
                /\ predictPage'[q.user_id].err # ""]_vars

\* a second submission for the same match was answered with the key error
\* while the first prediction is stored
C3_Witness ==
    \E u \in Users :
        /\ predictPage[u].err = DuplicateKey
        /\ \E r \in preds : r.user_id = u /\ r.match_id = "m1"

\* C4: no prediction row is inserted for a match whose status is finished at
\* the time of the insert, whatever the interleaving of the admin's
\* "Mark finished" and the fan's submission from a page loaded earlier.
C4_NoPredictionForFinished ==
    [][\A r \in preds' \ preds : matches[r.match_id] # "finished"]_vars

\* C5: submitPrediction sends an insert only for a caller whose role is fan;
\* for any other role it reports "Only fans can submit predictions.", sends
\* nothing, leaves the caller's predictions alone and leaves the matches and
\* the leaderboard on the page as they were.
C5_OnlyFansSubmit ==
    [][\A u \in Users :
         predictPage[u].meRole # "fan" =>
            /\ RequestsOf(inflight', u) \subseteq RequestsOf(inflight, u)
            /\ PredsOf(preds', u) = PredsOf(preds, u)
            /\ (/\ ~predictPage[u].loading
                /\ predictPage'[u] # predictPage[u]
                /\ predictPage'[u].err # "")
               => predictPage'[u] = [predictPage[u] EXCEPT !.err = OnlyFans, !.msg = ""]]_vars

\* a caller who is not a fan has called submitPrediction on a loaded page
C5_Witness ==
    \E u \in Users :
        /\ predictPage[u].meRole # "fan"
        /\ predictPage[u].err = OnlyFans
        /\ ~predictPage[u].loading
        /\ predictPage[u].matches["m1"] = "scheduled"
        /\ PredsOf(preds, u) = {}

(***************************************************************************)
(* Admin dispatch endpoints: claims                                        *)
(***************************************************************************)
Tables == <<profiles, teams, groups, teamPlayers, matches, goals>>

IsActiveAdmin(token) ==
    /\ token \in Users
    /\ profiles[token].role = "admin"
    /\ profiles[token].status = "active"

Gated(eps) ==
    lastResp'.ep \in eps =>
        /\ (Tables' # Tables => IsActiveAdmin(lastResp'.token))
        /\ (lastResp' # lastResp /\ ~IsActiveAdmin(lastResp'.token)
              => lastResp'.status = 403 /\ Tables' = Tables)

\* C1: every call to an admin dispatch endpoint writes only when its bearer
\* token resolves to a profile with role admin and status active; a call
\* with a missing or invalid token, or any other role or status, answers 403
\* and creates, changes and deletes no row.
C1_WritesNeedAdmin == [][Gated({ActionEp, RouteEp})]_vars

\* the same statement for the calls to /api/admin/action alone
C1_ActionEndpointGated == [][Gated({ActionEp})]_vars

\* the write the answered request asked for is in the tables after the step
\* (each table of this specification has one id, so the type names the row)
WriteTookEffect ==
    /\ lastResp'.type = "createTeam" => AdminTeamIds \subseteq teams'
    /\ lastResp'.type = "deleteTeam" => teams' \cap AdminTeamIds = {}
    /\ lastResp'.type = "createGroup" => AdminGroupIds \subseteq groups'
    /\ lastResp'.type = "deleteGroup" => groups' \cap AdminGroupIds = {}
    /\ lastResp'.type = "addTeamPlayer" => RosterIds \subseteq teamPlayers'
    /\ lastResp'.type \in {"removeTeamPlayer", "deleteRosterPlayer"} =>
           teamPlayers' \cap RosterIds = {}
    /\ lastResp'.type = "createMatch" => \A m \in AdminMatchIds : matches'[m] # "none"

Answered(eps) ==
    lastResp'.ep \in eps =>
        /\ lastResp'.status = 200 => WriteTookEffect
        /\ lastResp'.error = UnknownAction => lastResp'.status = 400 /\ Tables' = Tables

\* C29: a dispatch endpoint answers ok only when the backend write of the
\* operation succeeded, and answers an unknown type with 400 "Unknown
\* action" without writing.
C29_OkOnlyAfterWrite == [][Answered({ActionEp, RouteEp})]_vars

\* the same statement for the calls to /api/admin/action alone
C29_ActionEndpointOk == [][Answered({ActionEp})]_vars

C7_AllOrNothing ==
    [][\A c \in pending \ pending' :
         \/ matches'[c.match_id] = "deleted" /\ GoalsOf(goals', c.match_id) = {}
         \/ matches'[c.match_id] # "deleted" /\ c.removed \subseteq goals']_vars

====
